---- MODULE Spec2Model ----
(***************************************************************************)
(* A model of the graph rewriting passes of mppq (mppq/ir/morph.py) and of *)
(* the block partitioner (mppq/quantization/algorithm/training.py).        *)
(*                                                                         *)
(* Operations and Variables are Python objects: they are modelled as       *)
(* object identifiers with fields, and the graph holds name-keyed          *)
(* mappings to them, so that a stale reference (an object that is still    *)
(* referenced but no longer registered) can be told from a live one.       *)
(***************************************************************************)
EXTENDS Integers, Sequences, FiniteSets, TLC

\* ------------------------------------------------------------------ bounds
MaxOps == 3      \* operations a graph is built with
MaxVars == 4     \* variables a graph is built with
MaxFanIn == 2    \* inputs of one operation
MaxLimit == 3    \* largest depth limit handed to BlockBuilder.build
BlockOps == 5    \* operations of a graph handed to BlockBuilder
BlockVars == 6   \* variables of a graph handed to BlockBuilder
FuseOps == 5     \* operations of a graph handed to fuse_bn alone
CanonOps == 3    \* operations of a graph handed to the canonicalizations
ChainOps == 3    \* operations of a graph handed to format_graph
RouteOps == 2    \* operations of a graph a single command is issued on
MaxPlatforms == 3  \* platform identifiers a caller registers
DispatchOps == 2   \* operations of a graph handed to dispatch_graph
LnOps == 16      \* operations of a graph handed to fuse_layernorm
LnBranches == 2  \* Sub operations of such a graph
QueueOps == 3    \* operations pushed on a PriorityQueue
QueueDepth == 2  \* largest depth pushed on a PriorityQueue
StepOps == 3     \* operations of a graph build is followed on pass by pass
FuseBack == 2    \* such an operation reads one of the FuseBack newest data variables
MaxSteps == 5    \* training steps of one call of finetune
MaxOutputs == 2  \* outputs of the block that is tuned
MaxLoss == 1     \* block losses are 0..MaxLoss
MaxObserved == 2 \* tensors a DirectMSEObserver collects
MaxChannels == 2 \* channels of an observed tensor
MaxHookInputs == 2   \* inputs of an observed operation
MaxHookOutputs == 1  \* outputs of an observed operation

Max(S) == CHOOSE x \in S : \A y \in S : y <= x

\* object pools: passes create operations and variables of their own
MaxOpObj == Max({MaxOps + 2, BlockOps, FuseOps + 2, LnOps + 2})
MaxVarObj == Max({5 * MaxOps + MaxVars + 2, 2 * LnOps + 5})
OpIds == 1..MaxOpObj
VarIds == 1..MaxVarObj
None == 0

OpTypes == {"Conv", "BatchNormalization", "Relu"}

\* ------------------------------------------------------------ list helpers
Range(s) == {s[i] : i \in 1..Len(s)}

\* list.index(x): position of the first occurrence, 0 when absent (ValueError)
IndexOf(s, x) ==
    IF \E i \in 1..Len(s) : s[i] = x
    THEN CHOOSE i \in 1..Len(s) : s[i] = x /\ \A j \in 1..(i - 1) : s[j] # x
    ELSE 0

\* list.pop(i), 1-based
PopAt(s, i) == [k \in 1..(Len(s) - 1) |-> IF k < i THEN s[k] ELSE s[k + 1]]

\* list.remove(x) when x is present, no change otherwise (the callers test first)
RemoveFirst(s, x) == IF IndexOf(s, x) = 0 THEN s ELSE PopAt(s, IndexOf(s, x))

SetAt(s, i, x) == [s EXCEPT ![i] = x]

RECURSIVE Concat(_, _)
\* concatenation of f[s[1]], f[s[2]], ...
Concat(f, s) == IF s = <<>> THEN <<>> ELSE f[Head(s)] \o Concat(f, Tail(s))

RECURSIVE SetToSeq(_)
\* a set of identifiers in ascending order (dict insertion order: objects are
\* numbered in creation order)
SetToSeq(S) ==
    IF S = {} THEN <<>>
    ELSE LET m == CHOOSE x \in S : \A y \in S : x <= y
         IN <<m>> \o SetToSeq(S \ {m})

\* --------------------------------------------------------------- the graph
\* A graph value g is a record:
\*   opIn, opOut   Operation.inputs / Operation.outputs (lists of variables)
\*   opType, opName
\*   opAttr        the keys of Operation.attributes
\*   opPrecision   Operation.precision ("" while none is assigned)
\*   vSrc, vDst    Variable.source_op / Variable.dest_ops
\*   vParam, vName Variable.is_parameter / Variable.name
\*   operations, variables, inputs, outputs   the name-keyed mappings of the
\*                 graph (None where the name is no key)
\*   nOp, nVar     objects allocated so far
\*   kind          which frontend built the graph: "plain" (untyped operations of
\*                 any fan-in), "typed" (Conv / BatchNormalization / Relu chains),
\*                 "block", "canon" (operations the formatter canonicalizes) or
\*                 "chain" (operations the command chain rewrites), "pattern"
\*                 (operations of the patterns the merger matches)
\*   err           "" or the exception that ended the running handler
EmptyGraph ==
    [opIn |-> [o \in OpIds |-> <<>>], opOut |-> [o \in OpIds |-> <<>>],
     opType |-> [o \in OpIds |-> "Relu"], opName |-> [o \in OpIds |-> o],
     opAttr |-> [o \in OpIds |-> {}], opPrecision |-> [o \in OpIds |-> ""],
     vSrc |-> [v \in VarIds |-> None], vDst |-> [v \in VarIds |-> <<>>],
     vParam |-> [v \in VarIds |-> FALSE], vName |-> [v \in VarIds |-> v],
     operations |-> [n \in OpIds |-> None], variables |-> [n \in VarIds |-> None],
     inputs |-> [n \in VarIds |-> None], outputs |-> [n \in VarIds |-> None],
     nOp |-> 0, nVar |-> 0, kind |-> "", err |-> ""]

\* graph.operations.values() / graph.variables.values()
RegOps(g) == {g.operations[n] : n \in OpIds} \ {None}
RegVars(g) == {g.variables[n] : n \in VarIds} \ {None}
OutVars(g) == {g.outputs[n] : n \in VarIds} \ {None}
InVars(g) == {g.inputs[n] : n \in VarIds} \ {None}

\* Operation.parameters: the inputs that are parameters, in input order
parameters(g, op) == SelectSeq(g.opIn[op], LAMBDA v : g.vParam[v])

Raise(g, e) == [g EXCEPT !.err = e]

\* BaseGraph.get_downstream_operations: the consumers of every output, one
\* entry per consuming input position
get_downstream_operations(g, op) == Concat(g.vDst, g.opOut[op])

\* BaseGraph.get_upstream_operations: the producer of every input that has one
get_upstream_operations(g, op) ==
    LET withSrc == SelectSeq(g.opIn[op], LAMBDA v : g.vSrc[v] # None)
    IN [i \in 1..Len(withSrc) |-> g.vSrc[withSrc[i]]]

\* BaseGraph.remove_variable: unlink the variable from its producer and from
\* every consumer, then drop it from the graph's mappings
RECURSIVE UnlinkDests(_, _, _)
UnlinkDests(opIn, v, dests) ==
    IF dests = <<>> THEN opIn
    ELSE UnlinkDests([opIn EXCEPT ![Head(dests)] = RemoveFirst(@, v)], v, Tail(dests))

remove_variable(g, v) ==
    IF g.err # "" THEN g
    ELSE IF g.variables[g.vName[v]] = None THEN Raise(g, "KeyError")
    ELSE LET src == g.vSrc[v]
             out1 == IF src = None THEN g.opOut
                     ELSE [g.opOut EXCEPT ![src] = RemoveFirst(@, v)]
             n == g.vName[v]
         IN [g EXCEPT !.opOut = out1,
                      !.vSrc[v] = None,
                      !.opIn = UnlinkDests(g.opIn, v, g.vDst[v]),
                      !.vDst[v] = <<>>,
                      !.outputs[n] = None,
                      !.inputs[n] = None,
                      !.variables[n] = None]

\* BaseGraph.remove_operation (keep_coherence = False): detach the operation's
\* outputs (they stay registered, without producer), detach it from its inputs
\* and drop it from graph.operations
RECURSIVE ClearSource(_, _)
ClearSource(vSrc, outs) ==
    IF outs = <<>> THEN vSrc
    ELSE ClearSource([vSrc EXCEPT ![Head(outs)] = None], Tail(outs))

RECURSIVE UnlinkInputs(_, _, _)
UnlinkInputs(vDst, op, ins) ==
    IF ins = <<>> THEN vDst
    ELSE UnlinkInputs([vDst EXCEPT ![Head(ins)] = RemoveFirst(@, op)], op, Tail(ins))

remove_operation(g, op) ==
    IF g.err # "" THEN g
    ELSE IF g.operations[g.opName[op]] = None THEN Raise(g, "KeyError")
    ELSE [g EXCEPT !.vSrc = ClearSource(g.vSrc, g.opOut[op]),
                   !.opOut[op] = <<>>,
                   !.vDst = UnlinkInputs(g.vDst, op, g.opIn[op]),
                   !.opIn[op] = <<>>,
                   !.operations[g.opName[op]] = None]

\* BaseGraph.mark_variable_as_graph_output
mark_variable_as_graph_output(g, v) ==
    IF g.err # "" THEN g
    ELSE IF g.variables[g.vName[v]] = None THEN Raise(g, "KeyError")
    ELSE [g EXCEPT !.outputs[g.vName[v]] = g.variables[g.vName[v]]]

\* BaseGraph.create_variable(is_parameter, dest_ops): a registered variable
\* that every operation of dest_ops takes as its last input
RECURSIVE AppendInput(_, _, _)
AppendInput(opIn, v, dests) ==
    IF dests = <<>> THEN opIn
    ELSE AppendInput([opIn EXCEPT ![Head(dests)] = Append(@, v)], v, Tail(dests))

create_variable(g, is_parameter, dest_ops) ==
    IF g.err # "" THEN g
    ELSE LET created == g.nVar + 1
         IN [g EXCEPT !.nVar = created,
                      !.vParam[created] = is_parameter,
                      !.variables[g.vName[created]] = created,
                      !.vDst[created] = dest_ops,
                      !.opIn = AppendInput(g.opIn, created, dest_ops)]

\* Variable(is_parameter = True, dest_ops = ...) handed to
\* BaseGraph.append_variable: registered, no operation holds it yet
append_variable(g, dest_ops) ==
    IF g.err # "" THEN g
    ELSE LET var == g.nVar + 1
         IN [g EXCEPT !.nVar = var,
                      !.vParam[var] = TRUE,
                      !.variables[g.vName[var]] = var,
                      !.vDst[var] = dest_ops]

\* BaseGraph.remove_operation (keep_coherence = True): the operation is
\* detached and dropped, and the input it passes through (its data input, or
\* its first input when it has no data input) takes the place of its output at
\* every consumer, and as graph output
RECURSIVE RelinkConsumers(_, _, _, _)
RelinkConsumers(g, dests, removing_var, input_var) ==
    IF dests = <<>> \/ g.err # "" THEN g
    ELSE LET op == Head(dests)
             idx == IndexOf(g.opIn[op], removing_var)
         IN IF idx = 0 THEN Raise(g, "ValueError")
            ELSE RelinkConsumers([g EXCEPT !.opIn[op][idx] = input_var,
                                           !.vDst[input_var] = Append(@, op)],
                                 Tail(dests), removing_var, input_var)

\* variant: the consumers of the removed output are left without that input
remove_operation_keep_coherence_cut(g, removing_op) ==
    IF g.err # "" THEN g
    ELSE IF g.operations[g.opName[removing_op]] = None THEN Raise(g, "KeyError")
    ELSE LET outs == g.opOut[removing_op]
             g1 == remove_operation(g, removing_op)
         IN IF outs = <<>> THEN g1 ELSE remove_variable(g1, outs[1])

remove_operation_keep_coherence(g, removing_op) ==
    IF g.err # "" THEN g
    ELSE IF g.operations[g.opName[removing_op]] = None THEN Raise(g, "KeyError")
    ELSE LET ins == g.opIn[removing_op]
             outs == g.opOut[removing_op]
             data == SelectSeq(ins, LAMBDA v : ~g.vParam[v])
             input_var == IF data # <<>> THEN data[1]
                          ELSE IF ins # <<>> THEN ins[1] ELSE None
             output_var == IF outs # <<>> THEN outs[1] ELSE None
             g1 == remove_operation(g, removing_op)
         IN IF input_var = None \/ output_var = None THEN g1
            ELSE LET is_graph_output == g1.outputs[g1.vName[output_var]] # None
                     g2 == RelinkConsumers(g1, g1.vDst[output_var], output_var, input_var)
                     g3 == remove_variable([g2 EXCEPT !.vDst[output_var] = <<>>], output_var)
                 IN IF is_graph_output THEN mark_variable_as_graph_output(g3, input_var)
                    ELSE g3


\* ------------------------------------------------------ GraphFormatter
\* delete_isolated, first loop body: `for var in op.outputs: remove_variable(var)`
\* walks the live list op.outputs by position while remove_variable shrinks it
RECURSIVE RemoveOutputsInPlace(_, _, _)
RemoveOutputsInPlace(g, op, i) ==
    IF g.err # "" \/ i > Len(g.opOut[op]) THEN g
    ELSE RemoveOutputsInPlace(remove_variable(g, g.opOut[op][i]), op, i + 1)

RECURSIVE RemoveBlacklist(_, _)
RemoveBlacklist(g, blacklist) ==
    IF blacklist = <<>> \/ g.err # "" THEN g
    ELSE RemoveBlacklist(
             remove_operation(RemoveOutputsInPlace(g, Head(blacklist), 1), Head(blacklist)),
             Tail(blacklist))

\* operations that feed nothing and produce no declared graph output
OpBlacklist(g) ==
    {op \in RegOps(g) :
        /\ Len(get_downstream_operations(g, op)) = 0
        /\ \A i \in 1..Len(g.opOut[op]) : g.outputs[g.vName[g.opOut[op][i]]] = None}

\* variant: one sweep over the operations instead of the loop to a fixed point
DeleteIsolatedOps_once(g) == RemoveBlacklist(g, SetToSeq(OpBlacklist(g)))

RECURSIVE DeleteIsolatedOps(_)
\* first while loop of delete_isolated
DeleteIsolatedOps(g) ==
    IF g.err # "" \/ OpBlacklist(g) = {} THEN g
    ELSE DeleteIsolatedOps(RemoveBlacklist(g, SetToSeq(OpBlacklist(g))))

\* variant: variables without producer and consumer are not collected
VarBlacklist_linked(g) ==
    {v \in RegVars(g) :
        \/ g.vSrc[v] # None /\ g.operations[g.opName[g.vSrc[v]]] = None
        \/ \E i \in 1..Len(g.vDst[v]) : g.operations[g.opName[g.vDst[v][i]]] = None}

\* variables without producer and consumer, or linked to an operation that is
\* not registered in the graph
VarBlacklist(g) ==
    {v \in RegVars(g) :
        \/ g.vSrc[v] = None /\ Len(g.vDst[v]) = 0
        \/ g.vSrc[v] # None /\ g.operations[g.opName[g.vSrc[v]]] = None
        \/ \E i \in 1..Len(g.vDst[v]) : g.operations[g.opName[g.vDst[v][i]]] = None
        \/ g.vSrc[v] = None /\ g.inputs[g.vName[v]] = None /\ Len(g.vDst[v]) = 0}

RECURSIVE RemoveVars(_, _)
RemoveVars(g, vs) ==
    IF vs = <<>> \/ g.err # "" THEN g
    ELSE RemoveVars(remove_variable(g, Head(vs)), Tail(vs))

RECURSIVE DeleteIsolatedVars(_)
\* second while loop of delete_isolated
DeleteIsolatedVars(g) ==
    IF g.err # "" \/ VarBlacklist(g) = {} THEN g
    ELSE DeleteIsolatedVars(RemoveVars(g, SetToSeq(VarBlacklist(g))))

\* variant: the variables are swept before the operations
delete_isolated_swapped(g) == DeleteIsolatedOps(DeleteIsolatedVars(g))

delete_isolated(g) == DeleteIsolatedVars(DeleteIsolatedOps(g))

\* variant: only the direct consumers of the variable are marked
MarkToDelete_direct(g, mark, queue, didx) == Range(queue)

RECURSIVE MarkToDelete(_, _, _, _)
\* truncate_on_var: the worklist closure of var.dest_ops under
\* get_downstream_operations
MarkToDelete(g, mark, queue, didx) ==
    IF didx > Len(queue) THEN mark
    ELSE LET first_op == queue[didx]
         IN IF first_op \in mark
            THEN MarkToDelete(g, mark, queue, didx + 1)
            ELSE MarkToDelete(g, mark \cup {first_op},
                              queue \o get_downstream_operations(g, first_op), didx + 1)

RECURSIVE RemoveOps(_, _)
RemoveOps(g, ops) ==
    IF ops = <<>> \/ g.err # "" THEN g
    ELSE RemoveOps(remove_operation(g, Head(ops)), Tail(ops))

truncate_on_var(g, var, mark_as_output, order) ==
    IF g.variables[g.vName[var]] = None THEN Raise(g, "KeyError")
    ELSE LET g1 == RemoveOps(g, order)
             g2 == IF mark_as_output THEN mark_variable_as_graph_output(g1, var) ELSE g1
         IN delete_isolated(g2)

\* the orders in which Python may walk the set mark_to_delete
Orders(S) == {s \in [1..Cardinality(S) -> S] : \A i, j \in 1..Cardinality(S) : s[i] = s[j] => i = j}

\* format_parameter, inner loop: every dest_ops entry of a shared parameter
\* gets a parameter variable of its own at the first input position that
\* still holds the shared one
RECURSIVE SplitParameter(_, _, _)
SplitParameter(g, var, dests) ==
    IF dests = <<>> \/ g.err # "" THEN g
    ELSE LET op == Head(dests)
             created == g.nVar + 1
             idx == IndexOf(g.opIn[op], var)
         IN IF idx = 0 THEN Raise(g, "ValueError")
            ELSE SplitParameter([g EXCEPT !.nVar = created,
                                          !.vParam[created] = TRUE,
                                          !.variables[g.vName[created]] = created,
                                          !.opIn[op][idx] = created,
                                          !.vDst[created] = <<op>>],
                                var, Tail(dests))

RECURSIVE FormatParameters_pairs(_, _)
\* variant: a parameter is left alone unless it has more than two destinations
FormatParameters_pairs(g, vs) ==
    IF vs = <<>> \/ g.err # "" THEN g
    ELSE LET var == Head(vs)
         IN IF g.vParam[var] /\ Len(g.vDst[var]) > 2
            THEN LET g1 == SplitParameter(g, var, g.vDst[var])
                 IN FormatParameters_pairs(remove_variable([g1 EXCEPT !.vDst[var] = <<>>], var), Tail(vs))
            ELSE FormatParameters_pairs(g, Tail(vs))

RECURSIVE FormatParameters(_, _)
FormatParameters(g, vs) ==
    IF vs = <<>> \/ g.err # "" THEN g
    ELSE LET var == Head(vs)
         IN IF g.vParam[var] /\ Len(g.vDst[var]) > 1
            THEN LET g1 == SplitParameter(g, var, g.vDst[var])
                 IN FormatParameters(remove_variable([g1 EXCEPT !.vDst[var] = <<>>], var), Tail(vs))
            ELSE FormatParameters(g, Tail(vs))

format_parameter(g) == FormatParameters(g, SetToSeq(RegVars(g)))

\* the operations of a type, in the order of graph.operations
OpsOfType(g, type) == SelectSeq(SetToSeq(RegOps(g)), LAMBDA op : g.opType[op] = type)

\* GraphFormatter.__add_constant_input: a new parameter becomes the last input
add_constant_input(g, op) ==
    IF g.err # "" THEN g
    ELSE IF g.operations[g.opName[op]] = None THEN Raise(g, "KeyError")
    ELSE LET operation == g.operations[g.opName[op]]
             g1 == append_variable(g, <<>>)
             var == g1.nVar
         IN [g1 EXCEPT !.vDst[var] = Append(@, operation),
                       !.opIn[operation] = Append(@, var)]

\* format_slice, second loop. Without an axes attribute the code evaluates
\* range(starts) on the list of starts, a TypeError
RECURSIVE FormatSlices(_, _)
FormatSlices(g, interested_ops) ==
    IF interested_ops = <<>> \/ g.err # "" THEN g
    ELSE LET slice_op == Head(interested_ops)
         IN IF "axes" \notin g.opAttr[slice_op] THEN Raise(g, "TypeError")
            ELSE LET g1 == [g EXCEPT !.opAttr[slice_op] = @ \ {"starts", "ends", "axes"}]
                     g2 == add_constant_input(add_constant_input(add_constant_input(g1, slice_op), slice_op), slice_op)
                 IN FormatSlices(g2, Tail(interested_ops))

format_slice(g) ==
    LET interested_ops == SelectSeq(OpsOfType(g, "Slice"), LAMBDA op : "starts" \in g.opAttr[op])
    IN IF \E i \in 1..Len(interested_ops) : "ends" \notin g.opAttr[interested_ops[i]]
       THEN Raise(g, "AssertionError")
       ELSE FormatSlices(g, interested_ops)

RECURSIVE FormatPads_keep(_, _)
\* variant: the pads attribute stays on the operation
FormatPads_keep(g, ops) ==
    IF ops = <<>> \/ g.err # "" THEN g
    ELSE LET op == Head(ops)
         IN IF "pads" \in g.opAttr[op]
            THEN FormatPads_keep(create_variable(g, TRUE, <<op>>), Tail(ops))
            ELSE FormatPads_keep(g, Tail(ops))

RECURSIVE FormatPads(_, _)
FormatPads(g, ops) ==
    IF ops = <<>> \/ g.err # "" THEN g
    ELSE LET op == Head(ops)
         IN IF "pads" \in g.opAttr[op]
            THEN FormatPads([create_variable(g, TRUE, <<op>>) EXCEPT !.opAttr[op] = {}], Tail(ops))
            ELSE FormatPads(g, Tail(ops))

format_pad(g) == FormatPads(g, OpsOfType(g, "Pad"))

\* format_resize: an opset 10 Resize (x, scales) gets an empty placeholder as
\* second input: (x, placeholder, scales)
RECURSIVE FormatResizes(_, _)
FormatResizes(g, ops) ==
    IF ops = <<>> \/ g.err # "" THEN g
    ELSE LET op == Head(ops)
         IN IF Len(g.opIn[op]) = 2
            THEN LET g1 == create_variable(g, FALSE, <<op>>)
                 IN FormatResizes([g1 EXCEPT !.opIn[op] = <<@[1], @[3], @[2]>>], Tail(ops))
            ELSE FormatResizes(g, Tail(ops))

format_resize(g) == FormatResizes(g, OpsOfType(g, "Resize"))

\* format_clip, second loop: min and max become the last two inputs
RECURSIVE FormatClips(_, _)
FormatClips(g, interested_ops) ==
    IF interested_ops = <<>> \/ g.err # "" THEN g
    ELSE LET op == Head(interested_ops)
             g1 == append_variable(g, <<op>>)
             min_var == g1.nVar
             g2 == append_variable(g1, <<op>>)
             max_var == g2.nVar
         IN FormatClips([g2 EXCEPT !.opIn[op] = @ \o <<min_var, max_var>>,
                                   !.opAttr[op] = @ \ {"min", "max"}],
                        Tail(interested_ops))

format_clip(g) ==
    FormatClips(g, SelectSeq(OpsOfType(g, "Clip"),
                             LAMBDA op : "min" \in g.opAttr[op] \/ "max" \in g.opAttr[op]))

\* remove_constant_input, second loop: the output of a Constant becomes a
\* parameter and the Constant is removed
RECURSIVE RemoveConstants(_, _)
RemoveConstants(g, removing_ops) ==
    IF removing_ops = <<>> \/ g.err # "" THEN g
    ELSE LET const_op == Head(removing_ops)
         IN IF "value" \notin g.opAttr[const_op] THEN Raise(g, "KeyError")
            ELSE LET output_var == g.opOut[const_op][1]
                 IN RemoveConstants(remove_operation([g EXCEPT !.vParam[output_var] = TRUE], const_op),
                                    Tail(removing_ops))

remove_constant_input(g) ==
    LET removing_ops == OpsOfType(g, "Constant")
    IN IF \E i \in 1..Len(removing_ops) : Len(g.opOut[removing_ops[i]]) # 1
       THEN Raise(g, "ValueError")
       ELSE RemoveConstants(g, removing_ops)

RECURSIVE RemoveIdentities(_, _)
RemoveIdentities(g, removing_ops) ==
    IF removing_ops = <<>> \/ g.err # "" THEN g
    ELSE RemoveIdentities(remove_operation_keep_coherence(g, Head(removing_ops)), Tail(removing_ops))

remove_identity(g) == RemoveIdentities(g, OpsOfType(g, "Identity"))

\* format_cast: every Cast must carry the attribute to, whose value is wrapped
format_cast(g) ==
    IF \E op \in RegOps(g) : g.opType[op] = "Cast" /\ "to" \notin g.opAttr[op]
    THEN Raise(g, "AssertionError")
    ELSE g

\* GraphFormatter.__delete_constant_input (input_idx counted from 1)
delete_constant_input(g, op, input_idx) ==
    IF g.err # "" THEN g
    ELSE IF g.operations[g.opName[op]] = None THEN Raise(g, "KeyError")
    ELSE LET operation == g.operations[g.opName[op]]
         IN IF input_idx > Len(g.opIn[operation]) THEN Raise(g, "ValueError")
            ELSE LET input_var == g.opIn[operation][input_idx]
                     source_op == g.vSrc[input_var]
                 IN IF source_op = None THEN Raise(g, "ValueError")
                    ELSE IF g.opType[source_op] # "Constant" THEN Raise(g, "ValueError")
                    ELSE LET g1 == [g EXCEPT !.vDst[input_var] = RemoveFirst(@, operation),
                                             !.opIn[operation] = PopAt(@, input_idx)]
                         IN IF g1.vDst[input_var] = <<>>
                            THEN remove_variable(remove_operation(g1, source_op), input_var)
                            ELSE g1

\* format_gather: the index of a Gather moves from a Constant input to the
\* attribute gather_index, and every Gather gets an axis
RECURSIVE FormatGathers(_, _)
FormatGathers(g, interested_ops) ==
    IF interested_ops = <<>> \/ g.err # "" THEN g
    ELSE LET operation == Head(interested_ops)
             index_op == IF Len(g.opIn[operation]) = 2 THEN g.vSrc[g.opIn[operation][2]] ELSE None
             constant == index_op # None /\ g.opType[index_op] = "Constant"
             g1 == IF ~constant THEN g
                   ELSE IF "value" \notin g.opAttr[index_op] THEN Raise(g, "KeyError")
                   ELSE LET d == delete_constant_input(g, operation, 2)
                        IN IF d.err # "" THEN d
                           ELSE [d EXCEPT !.opAttr[operation] = @ \cup {"gather_index"}]
             g2 == [g1 EXCEPT !.opAttr[operation] = @ \cup {"axis"}]
             g3 == IF "indices" \in g2.opAttr[operation]
                   THEN [g2 EXCEPT !.opAttr[operation] = (@ \cup {"gather_index"}) \ {"indices"}]
                   ELSE g2
         IN IF g1.err # "" THEN g1 ELSE FormatGathers(g3, Tail(interested_ops))

format_gather(g) == FormatGathers(g, OpsOfType(g, "Gather"))

\* format_int64_constant looks at the value of every Constant and keeps it
format_int64_constant(g) ==
    IF \E op \in RegOps(g) : g.opType[op] = "Constant" /\ "value" \notin g.opAttr[op]
    THEN Raise(g, "AssertionError")
    ELSE g

\* convert_to_tensor rewrites Variable.value only
convert_to_tensor(g) == g

\* --------------------------------------------------------- GraphMerger
\* SearchableGraph.path_matching(sp = computing op, rp = never, ep =
\* BatchNormalization, direction = down): one path per link from a computing
\* operation to a BatchNormalization
ComputingTypes == {"Conv", "Gemm", "ConvTranspose"}

BnPathsFrom(g, op) ==
    LET down == SelectSeq(get_downstream_operations(g, op),
                          LAMBDA d : g.opType[d] = "BatchNormalization")
    IN [i \in 1..Len(down) |-> <<op, down[i]>>]

RECURSIVE BnPaths(_, _)
BnPaths(g, ops) ==
    IF ops = <<>> THEN <<>>
    ELSE (IF g.opType[Head(ops)] \in ComputingTypes THEN BnPathsFrom(g, Head(ops)) ELSE <<>>)
         \o BnPaths(g, Tail(ops))

\* variant: the input variable forgets the old consumer but never learns the
\* merged operation
MergeBn_unlinked(g, computing_op, bn_op) ==
    LET merged_op == g.nOp + 1
        input_var == g.opIn[computing_op][1]
        output_var == g.opOut[bn_op][1]
        g1 == [g EXCEPT !.nOp = merged_op,
                        !.opName[merged_op] = g.opName[computing_op],
                        !.opType[merged_op] = g.opType[computing_op],
                        !.vDst[input_var] = RemoveFirst(@, computing_op),
                        !.vSrc[output_var] = merged_op,
                        !.opIn[computing_op] = Tail(@),
                        !.opOut[bn_op] = <<>>]
        g2 == remove_operation(remove_operation(g1, computing_op), bn_op)
    IN [g2 EXCEPT !.operations[g2.opName[merged_op]] = merged_op,
                  !.opIn[merged_op] = <<input_var>>,
                  !.opOut[merged_op] = <<output_var>>]

\* fuse_bn, the body of the loop for one matched pair that passed the checks
MergeBn(g, computing_op, bn_op) ==
    LET merged_op == g.nOp + 1
        weight_var == g.nVar + 1
        bias_var == g.nVar + 2
        input_var == g.opIn[computing_op][1]
        output_var == g.opOut[bn_op][1]
        g1 == [g EXCEPT !.nOp = merged_op,
                        !.nVar = bias_var,
                        !.opName[merged_op] = g.opName[computing_op],
                        !.opType[merged_op] = g.opType[computing_op],
                        !.vParam[weight_var] = TRUE,
                        !.vParam[bias_var] = TRUE,
                        !.vDst[weight_var] = <<merged_op>>,
                        !.vDst[bias_var] = <<merged_op>>,
                        !.vDst[input_var] = Append(RemoveFirst(@, computing_op), merged_op),
                        !.vSrc[output_var] = merged_op,
                        !.opIn[computing_op] = Tail(@),
                        !.opOut[bn_op] = <<>>]
        g2 == remove_operation(remove_operation(g1, computing_op), bn_op)
    IN IF g2.err # "" THEN g2
       ELSE [g2 EXCEPT !.operations[g2.opName[merged_op]] = merged_op,
                       !.opIn[merged_op] = <<input_var, weight_var, bias_var>>,
                       !.opOut[merged_op] = <<output_var>>,
                       !.variables[g2.vName[weight_var]] = weight_var,
                       !.variables[g2.vName[bias_var]] = bias_var]

\* variant: a matched pair is merged without the fan-out / fan-in check
Fusable_unchecked(g, computing_op, bn_op) == TRUE

\* fuse_bn merges a matched pair only if the computing operation has exactly
\* one downstream operation and the BatchNormalization exactly one upstream
Fusable(g, computing_op, bn_op) ==
    /\ Len(get_downstream_operations(g, computing_op)) = 1
    /\ Len(get_upstream_operations(g, bn_op)) = 1

RECURSIVE FuseBnPaths(_, _)
FuseBnPaths(g, paths) ==
    IF paths = <<>> \/ g.err # "" THEN g
    ELSE LET computing_op == Head(paths)[1]
             bn_op == Head(paths)[2]
         IN IF ~Fusable(g, computing_op, bn_op) THEN FuseBnPaths(g, Tail(paths))
            ELSE IF Len(parameters(g, bn_op)) # 4 THEN Raise(g, "AssertionError")
            ELSE IF Len(parameters(g, computing_op)) = 0 THEN Raise(g, "ValueError")
            ELSE IF g.opIn[computing_op] = <<>> \/ g.opOut[bn_op] = <<>> THEN Raise(g, "IndexError")
            ELSE FuseBnPaths(MergeBn(g, computing_op, bn_op), Tail(paths))

fuse_bn(g) == FuseBnPaths(g, BnPaths(g, SetToSeq(RegOps(g))))

\* fuse_bias_add, the tests between the type test of the downstream operation
\* and "ready for fusion". shaped holds the parameters whose value has the
\* shape of a bias of the computing operation.
RECURSIVE FuseBiasAdds_unchecked(_, _, _)
\* variant: the number of parameters of the Add is not tested
FuseBiasAdds_unchecked(g, ops, shaped) ==
    IF ops = <<>> \/ g.err # "" THEN g
    ELSE LET op == Head(ops)
             downs == get_downstream_operations(g, op)
             down == downs[1]
         IN IF g.opType[op] \notin ComputingTypes \/ Len(downs) # 1
            THEN FuseBiasAdds_unchecked(g, Tail(ops), shaped)
            ELSE IF g.opType[down] # "Add" \/ Len(g.opIn[op]) = 3
            THEN FuseBiasAdds_unchecked(g, Tail(ops), shaped)
            ELSE IF parameters(g, down) # <<>> /\ parameters(g, down)[1] \notin shaped
            THEN FuseBiasAdds_unchecked(g, Tail(ops), shaped)
            ELSE FuseBiasAdds_unchecked(
                     remove_operation_keep_coherence(create_variable(g, TRUE, <<op>>), down),
                     Tail(ops), shaped)

RECURSIVE FuseBiasAdds(_, _, _)
FuseBiasAdds(g, ops, shaped) ==
    IF ops = <<>> \/ g.err # "" THEN g
    ELSE LET op == Head(ops)
             downs == get_downstream_operations(g, op)
             down == downs[1]
         IN IF g.opType[op] \notin ComputingTypes \/ Len(downs) # 1
            THEN FuseBiasAdds(g, Tail(ops), shaped)
            ELSE IF g.opType[down] # "Add"
                    \/ Len(parameters(g, down)) # 1
                    \/ Len(g.opIn[op]) = 3
            THEN FuseBiasAdds(g, Tail(ops), shaped)
            ELSE IF g.opType[op] # "Gemm" /\ parameters(g, op) = <<>>
            THEN Raise(g, "IndexError")
            ELSE IF g.opType[op] # "Gemm" /\ parameters(g, down)[1] \notin shaped
            THEN FuseBiasAdds(g, Tail(ops), shaped)
            ELSE FuseBiasAdds(
                     remove_operation_keep_coherence(create_variable(g, TRUE, <<op>>), down),
                     Tail(ops), shaped)

fuse_bias_add(g, shaped) == FuseBiasAdds(g, SetToSeq(RegOps(g)), shaped)

\* ------------------------------------------------------- GraphReplacer
\* replace_op, first loop: every input variable lists replace_to where it
\* listed the operation (one dest_ops entry per input position)
RECURSIVE RelinkDests(_, _, _, _)
RelinkDests(g, ins, operation, replace_to) ==
    IF ins = <<>> \/ g.err # "" THEN g
    ELSE LET input_var == Head(ins)
             dest_idx == IndexOf(g.vDst[input_var], operation)
         IN IF dest_idx = 0 THEN Raise(g, "ValueError")
            ELSE RelinkDests([g EXCEPT !.vDst[input_var][dest_idx] = replace_to],
                             Tail(ins), operation, replace_to)

RECURSIVE SetSource(_, _, _)
SetSource(vSrc, outs, op) ==
    IF outs = <<>> THEN vSrc
    ELSE SetSource([vSrc EXCEPT ![Head(outs)] = op], Tail(outs), op)

\* variant: the lists replace_to came with are not cleared first
replace_op_noclear(g, op_name, replace_to) ==
    IF g.operations[op_name] = None THEN Raise(g, "KeyError")
    ELSE LET operation == g.operations[op_name]
             g1 == [g EXCEPT !.opIn[replace_to] = @ \o g.opIn[operation]]
             g2 == RelinkDests(g1, g1.opIn[operation], operation, replace_to)
         IN IF g2.err # "" THEN g2
            ELSE [g2 EXCEPT !.opOut[replace_to] = @ \o g2.opOut[operation],
                            !.vSrc = SetSource(g2.vSrc, g2.opOut[operation], replace_to),
                            !.operations[op_name] = replace_to]

\* variant: replace_to is cleared before the name is looked up
replace_op_eager(g, op_name, replace_to) ==
    IF g.operations[op_name] = None
    THEN Raise([g EXCEPT !.opIn[replace_to] = <<>>, !.opOut[replace_to] = <<>>], "KeyError")
    ELSE replace_op_noclear([g EXCEPT !.opIn[replace_to] = <<>>, !.opOut[replace_to] = <<>>],
                            op_name, replace_to)

replace_op(g, op_name, replace_to) ==
    IF g.operations[op_name] = None THEN Raise(g, "KeyError")
    ELSE LET operation == g.operations[op_name]
             \* replace_to.inputs.clear(); replace_to.inputs.extend(operation.inputs)
             g0 == [g EXCEPT !.opIn[replace_to] = <<>>]
             g1 == [g0 EXCEPT !.opIn[replace_to] = g0.opIn[operation]]
             g2 == RelinkDests(g1, g1.opIn[operation], operation, replace_to)
             g3 == [g2 EXCEPT !.opOut[replace_to] = <<>>]
         IN IF g2.err # "" THEN g2
            ELSE [g3 EXCEPT !.opOut[replace_to] = g3.opOut[operation],
                            !.vSrc = SetSource(g3.vSrc, g3.opOut[operation], replace_to),
                            !.operations[op_name] = replace_to]

\* replace_var, first loop: each consumer holds replace_to at the first
\* position where it still holds the variable
RECURSIVE RelinkInputs(_, _, _, _)
RelinkInputs(g, dests, variable, replace_to) ==
    IF dests = <<>> \/ g.err # "" THEN g
    ELSE LET dest_op == Head(dests)
             dest_idx == IndexOf(g.opIn[dest_op], variable)
         IN IF dest_idx = 0 THEN Raise(g, "ValueError")
            ELSE RelinkInputs([g EXCEPT !.opIn[dest_op][dest_idx] = replace_to],
                              Tail(dests), variable, replace_to)

\* variant: every consumer is visited once, however often it holds the variable
replace_var_once(g, var_name, replace_to) ==
    IF g.variables[var_name] = None THEN Raise(g, "KeyError")
    ELSE LET variable == g.variables[var_name]
             g1 == [g EXCEPT !.vDst[replace_to] = g.vDst[variable]]
             g2 == RelinkInputs(g1, SetToSeq(Range(g1.vDst[replace_to])), variable, replace_to)
             src == g2.vSrc[variable]
         IN IF g2.err # "" THEN g2
            ELSE [g2 EXCEPT !.vSrc[replace_to] = src,
                            !.opOut = IF src = None THEN @
                                      ELSE [@ EXCEPT ![src][IndexOf(g2.opOut[src], variable)] = replace_to],
                            !.variables[var_name] = replace_to,
                            !.inputs[var_name] = IF @ # None THEN replace_to ELSE @,
                            !.outputs[var_name] = IF @ # None THEN replace_to ELSE @]

replace_var(g, var_name, replace_to) ==
    IF g.variables[var_name] = None THEN Raise(g, "KeyError")
    ELSE LET variable == g.variables[var_name]
             \* replace_to.dest_ops.clear(); replace_to.dest_ops.extend(variable.dest_ops)
             g0 == [g EXCEPT !.vDst[replace_to] = <<>>]
             g1 == [g0 EXCEPT !.vDst[replace_to] = g0.vDst[variable]]
             g2 == RelinkInputs(g1, g1.vDst[replace_to], variable, replace_to)
             src == g2.vSrc[variable]
         IN IF g2.err # "" THEN g2
            ELSE IF src # None /\ IndexOf(g2.opOut[src], variable) = 0 THEN Raise(g2, "ValueError")
            ELSE [g2 EXCEPT !.vSrc[replace_to] = src,
                            !.opOut = IF src = None THEN @
                                      ELSE [@ EXCEPT ![src][IndexOf(g2.opOut[src], variable)] = replace_to],
                            !.variables[var_name] = replace_to,
                            !.inputs[var_name] = IF @ # None THEN replace_to ELSE @,
                            !.outputs[var_name] = IF @ # None THEN replace_to ELSE @]

\* replace_batchnorm_to_conv: a BatchNormalization becomes a Conv that keeps
\* its first two parameters
RECURSIVE ReplaceBatchnormToConv(_, _)
ReplaceBatchnormToConv(g, ops) ==
    IF ops = <<>> \/ g.err # "" THEN g
    ELSE LET op == Head(ops)
         IN IF Len(parameters(g, op)) # 4 THEN Raise(g, "AssertionError")
            ELSE LET g1 == [g EXCEPT !.opType[op] = "Conv",
                                     !.opAttr[op] = {"kernel_shape", "strides", "dilations", "pads", "group"}]
                     g2 == remove_variable(g1, g1.opIn[op][Len(g1.opIn[op])])
                     g3 == IF g2.err # "" THEN g2
                           ELSE remove_variable(g2, g2.opIn[op][Len(g2.opIn[op])])
                 IN IF g3.err = "" /\ Len(g3.opIn[op]) < 3 THEN Raise(g3, "IndexError")
                    ELSE ReplaceBatchnormToConv(g3, Tail(ops))

replace_batchnorm_to_conv(g) == ReplaceBatchnormToConv(g, OpsOfType(g, "BatchNormalization"))

\* BaseGraph.insert_op_after(op0, op1): op0 is spliced between op1 and the
\* output of op1, over a new variable
insert_op_after(g, op0, op1) ==
    IF g.err # "" THEN g
    ELSE IF Len(g.opOut[op1]) # 1 THEN Raise(g, "ValueError")
    ELSE LET output_var == g.opOut[op1][1]
             link_var == g.nVar + 1
         IN [g EXCEPT !.nVar = link_var,
                      !.variables[g.vName[link_var]] = link_var,
                      !.vSrc[link_var] = op1,
                      !.vDst[link_var] = <<op0>>,
                      !.opOut[op1] = <<link_var>>,
                      !.opIn[op0] = <<link_var>> \o @,
                      !.opOut[op0] = <<output_var>>,
                      !.vSrc[output_var] = op0]

RECURSIVE RemoveEach(_, _)
RemoveEach(g, vs) ==
    IF vs = <<>> \/ g.err # "" THEN g
    ELSE RemoveEach(remove_variable(g, Head(vs)), Tail(vs))

\* replace_batchnorm_to_scale: a BatchNormalization becomes a Mul with one
\* parameter, followed by a new Add with one parameter
RECURSIVE ReplaceBatchnormToScale(_, _)
ReplaceBatchnormToScale(g, ops) ==
    IF ops = <<>> \/ g.err # "" THEN g
    ELSE LET op == Head(ops)
         IN IF Len(parameters(g, op)) # 4 THEN Raise(g, "AssertionError")
            ELSE LET g1 == create_variable(RemoveEach(g, parameters(g, op)), TRUE, <<op>>)
                     add == g1.nOp + 1
                     g2 == [g1 EXCEPT !.opType[op] = "Mul",
                                      !.opAttr[op] = {},
                                      !.nOp = add,
                                      !.opType[add] = "Add",
                                      !.operations[g1.opName[add]] = add]
                     g3 == create_variable(insert_op_after(g2, add, op), TRUE, <<add>>)
                 IN ReplaceBatchnormToScale(IF g1.err # "" THEN g1 ELSE g3, Tail(ops))

replace_batchnorm_to_scale(g) == ReplaceBatchnormToScale(g, OpsOfType(g, "BatchNormalization"))

\* ---------------------------------------- GraphMerger, matched patterns
\* SearchableGraph.pattern_matching. A node predicate is the set of the
\* operation types it accepts; edges are pairs of 0-based pattern positions,
\* as the callers write them. An operation may take pattern position k after
\* the partial match m (positions 0 .. k-1) when it satisfies the predicate and
\* consumes an output of m's operation at i for every edge (i, k).
Feeds(g, up, down) == \E v \in Range(g.opOut[up]) : v \in Range(g.opIn[down])

Candidates(g, patterns, edges, m, k) ==
    {op \in RegOps(g) :
        /\ g.opType[op] \in patterns[k + 1]
        /\ \A e \in Range(edges) : e[2] = k /\ e[1] < k => Feeds(g, m[e[1] + 1], op)
        /\ \A e \in Range(edges) : e[1] = k /\ e[2] < k => Feeds(g, op, m[e[2] + 1])
        /\ \A e \in Range(edges) : e[1] = k /\ e[2] = k => Feeds(g, op, op)}

RECURSIVE AppendEach(_, _)
AppendEach(m, ops) ==
    IF ops = <<>> THEN <<>> ELSE <<Append(m, Head(ops))>> \o AppendEach(m, Tail(ops))

RECURSIVE ExtendAll(_, _, _, _, _)
\* every partial match of ms extended by one position, in graph iteration order
ExtendAll(g, patterns, edges, ms, k) ==
    IF ms = <<>> THEN <<>>
    ELSE AppendEach(Head(ms), SetToSeq(Candidates(g, patterns, edges, Head(ms), k)))
         \o ExtendAll(g, patterns, edges, Tail(ms), k)

RECURSIVE MatchFrom(_, _, _, _, _)
MatchFrom(g, patterns, edges, ms, k) ==
    IF k = Len(patterns) THEN ms
    ELSE MatchFrom(g, patterns, edges, ExtendAll(g, patterns, edges, ms, k), k + 1)

RECURSIVE Exclusive(_, _)
\* exclusive = True: no operation is in more than one match, first found wins
Exclusive(ms, used) ==
    IF ms = <<>> THEN <<>>
    ELSE IF Range(Head(ms)) \cap used # {} THEN Exclusive(Tail(ms), used)
    ELSE <<Head(ms)>> \o Exclusive(Tail(ms), used \cup Range(Head(ms)))

pattern_matching(g, patterns, edges, exclusive) ==
    LET matches == MatchFrom(g, patterns, edges, <<<<>>>>, 0)
    IN IF exclusive THEN Exclusive(matches, {}) ELSE matches

\* `lambda op: True`
AnyOp(g) == {g.opType[op] : op \in OpIds}

\* BaseGraph.create_operation(op_type, attributes, inputs, outputs): a new
\* registered operation; every input lists it as a consumer, every output has
\* it as its producer
RECURSIVE LinkEach(_, _, _)
LinkEach(vDst, op, ins) ==
    IF ins = <<>> THEN vDst
    ELSE LinkEach([vDst EXCEPT ![Head(ins)] = Append(@, op)], op, Tail(ins))

create_operation(g, op_type, attributes, inputs, outputs) ==
    IF g.err # "" THEN g
    ELSE LET created == g.nOp + 1
         IN [g EXCEPT !.nOp = created,
                      !.opType[created] = op_type,
                      !.opAttr[created] = attributes,
                      !.opIn[created] = inputs,
                      !.opOut[created] = outputs,
                      !.operations[g.opName[created]] = created,
                      !.vDst = LinkEach(g.vDst, created, inputs),
                      !.vSrc = SetSource(g.vSrc, outputs, created)]

\* BaseGraph.create_link_with_op(None, B, variable): B takes the variable as
\* its last input
create_link_with_op(g, B, variable) ==
    IF g.err # "" THEN g
    ELSE [g EXCEPT !.opIn[B] = Append(@, variable),
                   !.vDst[variable] = Append(@, B)]

\* fuse_layernorm, _fuse: the checks and the creation of the
\* LayerNormalization operation. The result holds the graph and the created
\* operation (None when _fuse returns None). Attribute values are not
\* modelled: where "axes" is present it is the same one-element list, and a
\* parameter read as epsilon holds one number.
LastOf(s) == s[Len(s)]

Fuse(g, rm1, rm2, eps, bias, layernorm_input_var, layernorm_output_var) ==
    IF /\ g.opType[rm1] = "ReduceMean"
       /\ g.opType[rm2] = "ReduceMean"
       /\ ("axes" \notin g.opAttr[rm1] \/ "axes" \notin g.opAttr[rm2])
    THEN [g |-> g, layernorm |-> None]
    ELSE IF g.opIn[eps] = <<>> THEN [g |-> Raise(g, "IndexError"), layernorm |-> None]
    ELSE IF ~g.vParam[LastOf(g.opIn[eps])] THEN [g |-> g, layernorm |-> None]
    ELSE LET source_op == g.vSrc[layernorm_output_var]
             g1 == IF source_op = None THEN g ELSE [g EXCEPT !.opOut[source_op] = <<>>]
             g2 == create_variable(g1, TRUE, <<>>)
             g3 == create_operation(g2, "LayerNormalization", {"axis", "epsilon", "stash_type"},
                                    <<layernorm_input_var, g2.nVar>>, <<layernorm_output_var>>)
             layernorm == g3.nOp
             g4 == IF bias
                   THEN LET g5 == create_variable(g3, TRUE, <<>>)
                        IN create_link_with_op(g5, layernorm, g5.nVar)
                   ELSE g3
         IN [g |-> g4, layernorm |-> layernorm]

\* "delete merged ops": the variables of op.inputs + op.outputs, then the
\* operation
RECURSIVE RemoveVarsBut(_, _, _)
RemoveVarsBut(g, vs, keep) ==
    IF vs = <<>> \/ g.err # "" THEN g
    ELSE RemoveVarsBut(IF Head(vs) \in keep THEN g ELSE remove_variable(g, Head(vs)),
                       Tail(vs), keep)

RECURSIVE DeleteMerged(_, _, _)
DeleteMerged(g, layernorm_ops, keep) ==
    IF layernorm_ops = <<>> \/ g.err # "" THEN g
    ELSE LET op == Head(layernorm_ops)
             g1 == RemoveVarsBut(g, g.opIn[op] \o g.opOut[op], keep)
         IN DeleteMerged(remove_operation(g1, op), Tail(layernorm_ops), keep)

\* fuse_layernorm, pattern 1
Pattern1(g) ==
    <<AnyOp(g), {"ReduceMean", "GlobalAveragePool"}, {"Sub"}, {"Pow"},
      {"ReduceMean", "GlobalAveragePool"}, {"Add"}, {"Sqrt"}, {"Div"}, {"Mul"}>>

Edges1 ==
    <<<<0, 1>>, <<0, 2>>, <<1, 2>>, <<2, 3>>, <<2, 7>>, <<3, 4>>, <<4, 5>>, <<5, 6>>,
      <<6, 7>>, <<7, 8>>>>

\* the body of the first loop up to the call of _fuse: the operands read from
\* the match (err is set where a read raises)
Operands1(g, m) ==
    LET sub == m[3]
        div == m[8]
        mul == m[9]
        next_op == get_downstream_operations(g, mul)
        bias_op == next_op[1]
        with_bias == /\ Len(next_op) = 1
                     /\ g.opType[bias_op] = "Add"
                     /\ g.vParam[LastOf(g.opIn[bias_op])]
    IN IF g.opIn[mul] = <<>> \/ g.opOut[div] = <<>> \/ g.opIn[sub] = <<>>
       THEN [err |-> "IndexError"]
       ELSE IF with_bias /\ g.opOut[bias_op] = <<>> THEN [err |-> "IndexError"]
       ELSE [err |-> "",
             bias |-> with_bias,
             layernorm_input_var |-> g.opIn[sub][1],
             layernorm_output_var |-> IF with_bias THEN g.opOut[bias_op][1] ELSE g.opOut[div][1],
             layernorm_ops |-> SubSeq(m, 2, 9) \o (IF with_bias THEN <<bias_op>> ELSE <<>>)]

\* one pass of the first loop
FuseMatch1(g, m) ==
    LET a == Operands1(g, m)
    IN IF a.err # "" THEN Raise(g, a.err)
       ELSE LET f == Fuse(g, m[2], m[5], m[6], a.bias, a.layernorm_input_var, a.layernorm_output_var)
            IN IF f.layernorm = None THEN f.g
               ELSE DeleteMerged(f.g, a.layernorm_ops, {a.layernorm_input_var, a.layernorm_output_var})

RECURSIVE FuseMatches1(_, _)
FuseMatches1(g, matches) ==
    IF matches = <<>> \/ g.err # "" THEN g
    ELSE FuseMatches1(FuseMatch1(g, Head(matches)), Tail(matches))

\* fuse_layernorm, pattern 2
Pattern2(g) ==
    <<AnyOp(g), {"ReduceMean", "GlobalAveragePool"}, {"Sub"}, {"Mul"},
      {"ReduceMean", "GlobalAveragePool"}, {"Add"}, {"Sqrt"}, {"Reciprocal"},
      {"Mul"}, {"Mul"}, {"Sub"}, {"Mul"}, {"Add"}>>

Edges2 ==
    <<<<0, 1>>, <<0, 2>>, <<0, 11>>, <<1, 2>>, <<1, 9>>, <<2, 3>>, <<3, 4>>, <<4, 5>>,
      <<5, 6>>, <<6, 7>>, <<7, 8>>, <<8, 9>>, <<8, 11>>, <<9, 10>>, <<11, 12>>, <<10, 12>>>>

\* one pass of the second loop
FuseMatch2(g, m) ==
    LET sub1 == m[3]
        mul2 == m[9]
        sub2 == m[11]
        add2 == m[13]
    IN IF g.opIn[mul2] = <<>> THEN Raise(g, "IndexError")
       ELSE IF ~g.vParam[LastOf(g.opIn[mul2])] THEN g
       ELSE IF g.opOut[add2] = <<>> \/ g.opIn[sub1] = <<>> \/ g.opIn[sub2] = <<>>
       THEN Raise(g, "IndexError")
       ELSE LET layernorm_output_var == g.opOut[add2][1]
                layernorm_input_var == g.opIn[sub1][1]
                f == Fuse(g, m[2], m[5], m[6], g.vParam[g.opIn[sub2][1]],
                          layernorm_input_var, layernorm_output_var)
            IN IF f.layernorm = None THEN f.g
               ELSE DeleteMerged(f.g, SubSeq(m, 2, 13), {layernorm_input_var, layernorm_output_var})

RECURSIVE FuseMatches2(_, _)
FuseMatches2(g, matches) ==
    IF matches = <<>> \/ g.err # "" THEN g
    ELSE FuseMatches2(FuseMatch2(g, Head(matches)), Tail(matches))

\* GraphMerger.fuse_layernorm(exclusive_search)
fuse_layernorm(g, exclusive_search) ==
    LET g1 == FuseMatches1(g, pattern_matching(g, Pattern1(g), Edges1, exclusive_search))
    IN IF g1.err # "" THEN g1
       ELSE FuseMatches2(g1, pattern_matching(g1, Pattern2(g1), Edges2, exclusive_search))

\* ------------------------------------------------------ the command chain
\* variant: GraphFormatter does not declare FORMAT_CAST
acceptable_command_types_nocast(processor) ==
    CASE processor = "GraphReplacer" ->
           {"REPLACE_OP", "REPLACE_VAR", "REPLACE_BATCHNORM_TO_CONV", "REPLACE_BATCHNORM_TO_SCALE"}
      [] processor = "GraphFormatter" ->
           {"FORMAT_CLIP", "FORMAT_PAD", "FORMAT_GATHER", "FORMAT_INT64_CONSTANT",
            "DELETE_ISOLATED", "FORMAT_PARAMETERS", "FORMAT_CONSTANT_INPUT", "FORMAT_SLICE",
            "TRUNCATE_ON_VAR", "FORMAT_RESIZE", "REMOVE_IDENTITY", "CONVERT_TO_TENSOR"}
      [] processor = "GraphMerger" -> {"FUSE_BN", "FUSE_BIAS_ADD"}

acceptable_command_types(processor) ==
    CASE processor = "GraphReplacer" ->
           {"REPLACE_OP", "REPLACE_VAR", "REPLACE_BATCHNORM_TO_CONV", "REPLACE_BATCHNORM_TO_SCALE"}
      [] processor = "GraphFormatter" ->
           {"FORMAT_CLIP", "FORMAT_PAD", "FORMAT_GATHER", "FORMAT_CAST", "FORMAT_INT64_CONSTANT",
            "DELETE_ISOLATED", "FORMAT_PARAMETERS", "FORMAT_CONSTANT_INPUT", "FORMAT_SLICE",
            "TRUNCATE_ON_VAR", "FORMAT_RESIZE", "REMOVE_IDENTITY", "CONVERT_TO_TENSOR"}
      [] processor = "GraphMerger" -> {"FUSE_BN", "FUSE_BIAS_ADD"}

Processors == {"GraphReplacer", "GraphFormatter", "GraphMerger"}

CommandTypes == UNION {acceptable_command_types(p) : p \in Processors}

\* the discriminants the process method of the processor tests for
process_branches(processor) ==
    CASE processor = "GraphReplacer" ->
           {"REPLACE_OP", "REPLACE_VAR", "REPLACE_BATCHNORM_TO_CONV", "REPLACE_BATCHNORM_TO_SCALE"}
      [] processor = "GraphFormatter" ->
           {"FORMAT_CLIP", "FORMAT_PAD", "FORMAT_GATHER", "FORMAT_CAST", "DELETE_ISOLATED",
            "FORMAT_INT64_CONSTANT", "FORMAT_PARAMETERS", "FORMAT_CONSTANT_INPUT", "FORMAT_SLICE",
            "FORMAT_RESIZE", "TRUNCATE_ON_VAR", "REMOVE_IDENTITY", "CONVERT_TO_TENSOR"}
      [] processor = "GraphMerger" -> {"FUSE_BN", "FUSE_BIAS_ADD"}

\* the process methods, handed a plain GraphCommand(command_type): the
\* branches in the order of the code. A command that matches no branch falls
\* through and the method returns None.
process(processor, g, command_type, shaped) ==
    IF g.err # "" THEN g
    ELSE IF command_type \notin process_branches(processor) THEN g
    ELSE CASE processor = "GraphReplacer" /\ command_type = "REPLACE_OP" -> Raise(g, "AssertionError")
           [] processor = "GraphReplacer" /\ command_type = "REPLACE_VAR" -> Raise(g, "AssertionError")
           [] processor = "GraphReplacer" /\ command_type = "REPLACE_BATCHNORM_TO_CONV" -> replace_batchnorm_to_conv(g)
           [] processor = "GraphReplacer" /\ command_type = "REPLACE_BATCHNORM_TO_SCALE" -> replace_batchnorm_to_scale(g)
           [] processor = "GraphFormatter" /\ command_type = "FORMAT_CLIP" -> format_clip(g)
           [] processor = "GraphFormatter" /\ command_type = "FORMAT_PAD" -> format_pad(g)
           [] processor = "GraphFormatter" /\ command_type = "FORMAT_GATHER" -> format_gather(g)
           [] processor = "GraphFormatter" /\ command_type = "FORMAT_CAST" -> format_cast(g)
           [] processor = "GraphFormatter" /\ command_type = "DELETE_ISOLATED" -> delete_isolated(g)
           [] processor = "GraphFormatter" /\ command_type = "FORMAT_INT64_CONSTANT" -> format_int64_constant(g)
           [] processor = "GraphFormatter" /\ command_type = "FORMAT_PARAMETERS" -> format_parameter(g)
           [] processor = "GraphFormatter" /\ command_type = "FORMAT_CONSTANT_INPUT" -> remove_constant_input(g)
           [] processor = "GraphFormatter" /\ command_type = "FORMAT_SLICE" -> format_slice(g)
           [] processor = "GraphFormatter" /\ command_type = "FORMAT_RESIZE" -> format_resize(g)
           [] processor = "GraphFormatter" /\ command_type = "TRUNCATE_ON_VAR" -> Raise(g, "AssertionError")
           [] processor = "GraphFormatter" /\ command_type = "REMOVE_IDENTITY" -> remove_identity(g)
           [] processor = "GraphFormatter" /\ command_type = "CONVERT_TO_TENSOR" -> convert_to_tensor(g)
           [] processor = "GraphMerger" /\ command_type = "FUSE_BN" -> fuse_bn(g)
           [] processor = "GraphMerger" /\ command_type = "FUSE_BIAS_ADD" -> fuse_bias_add(g, shaped)

\* GraphCommandProcessor.__call__ on a chain of processors, outermost first:
\* the first processor that declares the command type acceptable processes
\* the command; the last one raises when it does not
RECURSIVE call(_, _, _, _)
call(chain, g, command_type, shaped) ==
    IF g.err # "" THEN g
    ELSE IF chain = <<>> THEN Raise(g, "ValueError")
    ELSE IF command_type \in acceptable_command_types(Head(chain))
         THEN process(Head(chain), g, command_type, shaped)
         ELSE call(Tail(chain), g, command_type, shaped)

\* the switches of mppq.common that format_graph reads
Switches ==
    {"FORMATTER_FORMAT_CONSTANT_INPUT", "FORMATTER_FUSE_BIAS_ADD", "FORMATTER_FUSE_BN",
     "FORMATTER_REPLACE_BN_TO_CONV", "FORMATTER_REMOVE_IDENTITY", "FORMATTER_REMOVE_ISOLATED"}

\* the commands format_graph issues, in order, each with the switch that
\* guards it ("" when none does)
FormatGraphSteps ==
    << <<"FORMAT_CONSTANT_INPUT", "FORMATTER_FORMAT_CONSTANT_INPUT">>,
       <<"CONVERT_TO_TENSOR", "">>,
       <<"FORMAT_PARAMETERS", "">>,
       <<"FUSE_BIAS_ADD", "FORMATTER_FUSE_BIAS_ADD">>,
       <<"FUSE_BN", "FORMATTER_FUSE_BN">>,
       <<"REPLACE_BATCHNORM_TO_CONV", "FORMATTER_REPLACE_BN_TO_CONV">>,
       <<"FORMAT_CAST", "">>,
       <<"FORMAT_SLICE", "">>,
       <<"FORMAT_CLIP", "">>,
       <<"FORMAT_PAD", "">>,
       <<"FORMAT_RESIZE", "">>,
       <<"REMOVE_IDENTITY", "FORMATTER_REMOVE_IDENTITY">>,
       <<"DELETE_ISOLATED", "FORMATTER_REMOVE_ISOLATED">> >>

FormatGraphCommands(switches) ==
    LET steps == SelectSeq(FormatGraphSteps, LAMBDA s : s[2] = "" \/ s[2] \in switches)
    IN [i \in 1..Len(steps) |-> steps[i][1]]

FormatterChain == <<"GraphReplacer", "GraphFormatter", "GraphMerger">>

RECURSIVE IssueAll(_, _, _, _)
IssueAll(chain, g, commands, shaped) ==
    IF commands = <<>> THEN g
    ELSE IssueAll(chain, call(chain, g, Head(commands), shaped), Tail(commands), shaped)

format_graph(g, switches, shaped) ==
    IssueAll(FormatterChain, g, FormatGraphCommands(switches), shaped)

\* ------------------------------------------------------- dispatch_graph
\* the keys of DISPATCHER_TABLE
DISPATCHER_TABLE == {"conservative", "aggressive", "allin", "pointwise", "perseus"}

\* str.lower on the names a caller passes
Lower(s) == IF s = "Conservative" THEN "conservative" ELSE s

\* the dispatcher arguments a caller passes: nothing (the default None), a
\* name, a GraphDispatcher, or something else
DispatcherArgs ==
    {[kind |-> "None", name |-> ""], [kind |-> "GraphDispatcher", name |-> "allin"],
     [kind |-> "int", name |-> ""]}
    \cup {[kind |-> "str", name |-> n] : n \in {"conservative", "Conservative", "allin", "nosuch"}}

\* the operation types a caller asks to quantize
QuantizeOperations == {"Conv", "Add"}

\* GraphDispatcher.dispatch: a table that gives every operation of the graph
\* a precision, by operation name ("" where the name is no key)
dispatch(g, quant_types) ==
    [n \in OpIds |->
        IF g.operations[n] = None THEN ""
        ELSE IF g.opType[g.operations[n]] \in quant_types THEN "UNSPECIFIED" ELSE "FP32"]

\* IgnoredScope(operations = names).dispatch: the named operations of the
\* graph go to FP32
IgnoredTable(g, ignored_scope) ==
    [n \in OpIds |-> IF n \in ignored_scope /\ g.operations[n] # None THEN "FP32" ELSE ""]

\* dict.update
Update(table, other) == [n \in OpIds |-> IF other[n] # "" THEN other[n] ELSE table[n]]

\* the loop over dispatching_override.items()
Override(g, table, dispatching_override) ==
    IF dispatching_override.kind = "None" THEN [table |-> table, err |-> ""]
    ELSE IF dispatching_override.kind # "dict" THEN [table |-> table, err |-> "TypeError"]
    ELSE IF g.operations[dispatching_override.opname] = None THEN [table |-> table, err |-> ""]
    ELSE IF ~dispatching_override.isint THEN [table |-> table, err |-> "TypeError"]
    ELSE [table |-> [table EXCEPT ![dispatching_override.opname] = dispatching_override.platform],
          err |-> ""]

\* the last loop: every operation takes its precision from the table
RECURSIVE AssignPrecision(_, _, _)
AssignPrecision(g, ops, table) ==
    IF ops = <<>> \/ g.err # "" THEN g
    ELSE LET operation == Head(ops)
         IN IF table[g.opName[operation]] = "" THEN Raise(g, "RuntimeError")
            ELSE AssignPrecision([g EXCEPT !.opPrecision[operation] = table[g.opName[operation]]],
                                 Tail(ops), table)

\* variant: without a dispatcher the conservative one is taken
dispatch_graph_default(g, dispatcher, dispatching_override, ignored_scope) ==
    IF dispatcher.kind = "str" /\ Lower(dispatcher.name) \notin DISPATCHER_TABLE
    THEN Raise(g, "ValueError")
    ELSE IF dispatcher.kind \notin {"str", "GraphDispatcher", "None"} THEN Raise(g, "TypeError")
    ELSE LET t1 == dispatch(g, QuantizeOperations)
             t2 == IF ignored_scope = {} THEN t1 ELSE Update(t1, IgnoredTable(g, ignored_scope))
             o == Override(g, t2, dispatching_override)
         IN IF o.err # "" THEN Raise(g, o.err)
            ELSE AssignPrecision(g, SetToSeq(RegOps(g)), o.table)

dispatch_graph(g, dispatcher, dispatching_override, ignored_scope) ==
    IF dispatcher.kind = "str" /\ Lower(dispatcher.name) \notin DISPATCHER_TABLE
    THEN Raise(g, "ValueError")
    ELSE IF dispatcher.kind \notin {"str", "GraphDispatcher"} THEN Raise(g, "TypeError")
    ELSE LET t1 == dispatch(g, QuantizeOperations)
             t2 == IF ignored_scope = {} THEN t1 ELSE Update(t1, IgnoredTable(g, ignored_scope))
             o == Override(g, t2, dispatching_override)
         IN IF o.err # "" THEN Raise(g, o.err)
            ELSE AssignPrecision(g, SetToSeq(RegOps(g)), o.table)

\* ------------------------------------------------------------ BlockBuilder
RECURSIVE DepthLoop_first(_, _, _)
\* variant: the depth of the first upstream operation is taken, not the largest
DepthLoop_first(gr, op_orders, depth) ==
    IF op_orders = <<>> THEN [depth |-> depth, err |-> ""]
    ELSE LET operation == Head(op_orders)
             ups == get_upstream_operations(gr, operation)
         IN IF Len(ups) = 0
            THEN DepthLoop_first(gr, Tail(op_orders), (operation :> 0) @@ depth)
            ELSE IF \E i \in 1..Len(ups) : ups[i] \notin DOMAIN depth
            THEN [depth |-> depth, err |-> "AssertionError"]
            ELSE DepthLoop_first(gr, Tail(op_orders), (operation :> depth[ups[1]] + 1) @@ depth)

RECURSIVE DepthLoop(_, _, _)
\* initialize_depth: the loop over op_orders; depth is the dict built so far,
\* the assertion fails on an upstream operation that has no depth yet
DepthLoop(gr, op_orders, depth) ==
    IF op_orders = <<>> THEN [depth |-> depth, err |-> ""]
    ELSE LET operation == Head(op_orders)
             ups == get_upstream_operations(gr, operation)
         IN IF Len(ups) = 0
            THEN DepthLoop(gr, Tail(op_orders), (operation :> 0) @@ depth)
            ELSE IF \E i \in 1..Len(ups) : ups[i] \notin DOMAIN depth
            THEN [depth |-> depth, err |-> "AssertionError"]
            ELSE DepthLoop(gr, Tail(op_orders),
                           (operation :> Max({depth[ups[i]] : i \in 1..Len(ups)}) + 1) @@ depth)

initialize_depth(gr, op_orders) == DepthLoop(gr, op_orders, <<>>)

\* PriorityQueue: _data is a list of (depth, op), _ops everything ever pushed,
\* _idx the number of elements popped
EmptyQueue == [data |-> <<>>, ops |-> {}, idx |-> 0, lazy_tag |-> TRUE]

push(q, depth, op) ==
    IF op \in q.ops THEN q
    ELSE [q EXCEPT !.data = Append(@, <<depth, op>>),
                   !.ops = @ \cup {op},
                   !.lazy_tag = FALSE]

RECURSIVE sorted(_)
\* sorted(data, key=lambda x: x[0]): stable
sorted(data) ==
    IF data = <<>> THEN <<>>
    ELSE LET n == Len(data)
             x == data[n]
             s == sorted(SubSeq(data, 1, n - 1))
             k == Cardinality({i \in 1..(n - 1) : s[i][1] <= x[1]})
         IN SubSeq(s, 1, k) \o <<x>> \o SubSeq(s, k + 1, n - 1)

\* pop: the queue after the call and the element returned
pop(q) ==
    LET d == IF q.lazy_tag THEN q.data ELSE sorted(q.data)
        q1 == [q EXCEPT !.data = d, !.lazy_tag = TRUE]
    IN IF q.idx >= Len(d)
       THEN [q |-> q1, ele |-> <<>>, err |-> "IndexError"]
       ELSE [q |-> [q1 EXCEPT !.idx = @ + 1], ele |-> d[q.idx + 1], err |-> ""]

empty(q) == q.idx >= Len(q.data)

RECURSIVE PushAll(_, _, _)
\* for down_op in ...: least_first_queue.push(self.depth[down_op], down_op)
PushAll(q, depth, ops) ==
    IF ops = <<>> THEN q
    ELSE PushAll(push(q, depth[Head(ops)], Head(ops)), depth, Tail(ops))

RECURSIVE MultiInputLoop(_, _, _)
\* the while loop of _find_multi_input_ep
MultiInputLoop(gr, depth, q) ==
    IF empty(q) THEN None
    ELSE LET p == pop(q)
             iter_operation == p.ele[2]
             upstream_ops == get_upstream_operations(gr, iter_operation)
         IN IF /\ empty(p.q)
               /\ \A i \in 1..Len(upstream_ops) : upstream_ops[i] \in p.q.ops
               /\ Len(upstream_ops) > 1
            THEN iter_operation
            ELSE MultiInputLoop(gr, depth,
                     PushAll(p.q, depth, get_downstream_operations(gr, iter_operation)))

find_multi_input_ep(gr, depth, op) ==
    LET q == pop(push(EmptyQueue, depth[op], op)).q
    IN MultiInputLoop(gr, depth, PushAll(q, depth, get_downstream_operations(gr, op)))

\* variant: the only downstream operation is taken whatever it reads
find_coherent_ep_any(gr, op) ==
    LET ops == get_downstream_operations(gr, op)
    IN IF Len(ops) = 1 THEN ops[1] ELSE None

find_coherent_ep(gr, op) ==
    LET ops == get_downstream_operations(gr, op)
    IN IF Len(ops) = 1
       THEN LET following_op == ops[1]
                non_parameter_input == Len(gr.opIn[following_op])
                                         - Len(parameters(gr, following_op))
                upstream_ops == Len(get_upstream_operations(gr, following_op))
            IN IF non_parameter_input = 1 /\ upstream_ops = 1 THEN ops[1] ELSE None
       ELSE None

RECURSIVE Reaches(_, _, _)
\* a path leads from op down to ep
Reaches(gr, op, ep) ==
    \/ op = ep
    \/ \E d \in Range(get_downstream_operations(gr, op)) : Reaches(gr, d, ep)

\* SearchableGraph.opset_matching(op == sp, True, op == ep, "down"): the
\* operations on any path from sp to ep
opset_matching(gr, sp, ep) ==
    {op \in RegOps(gr) : Reaches(gr, sp, op) /\ Reaches(gr, op, ep)}

\* the operations of S in the order of their index in op_orders
SortByOrder(op_orders, S) ==
    LET idx == {i \in 1..Len(op_orders) : op_orders[i] \in S /\ IndexOf(op_orders, op_orders[i]) = i}
    IN [k \in 1..Cardinality(idx) |->
           op_orders[CHOOSE i \in idx : Cardinality({j \in idx : j < i}) = k - 1]]

\* variant: the two ends alone make the block
create_block_ends(gr, op_orders, sp, ep) ==
    [sp |-> sp, ep |-> ep, rps |-> IF sp = ep THEN <<sp>> ELSE SortByOrder(op_orders, {sp, ep})]

create_block(gr, op_orders, sp, ep) ==
    IF sp = ep THEN [sp |-> sp, ep |-> ep, rps |-> <<sp>>]
    ELSE [sp |-> sp, ep |-> ep, rps |-> SortByOrder(op_orders, opset_matching(gr, sp, ep))]

RECURSIVE BuildLoop_unlimited(_, _, _, _, _, _)
\* variant: the loop extends as long as a candidate exists, whatever the limit
BuildLoop_unlimited(gr, op_orders, depth, sp, ep, limit) ==
    LET future_ep == IF Len(get_downstream_operations(gr, ep)) <= 1
                     THEN find_coherent_ep(gr, ep)
                     ELSE find_multi_input_ep(gr, depth, ep)
    IN IF future_ep = None
       THEN create_block(gr, op_orders, sp, ep)
       ELSE BuildLoop_unlimited(gr, op_orders, depth, sp, future_ep, limit)

RECURSIVE BuildLoop(_, _, _, _, _, _)
\* the while loop of build
BuildLoop(gr, op_orders, depth, sp, ep, limit) ==
    LET future_ep == IF Len(get_downstream_operations(gr, ep)) <= 1
                     THEN find_coherent_ep(gr, ep)
                     ELSE find_multi_input_ep(gr, depth, ep)
    IN IF future_ep = None \/ depth[future_ep] - depth[sp] > limit
       THEN create_block(gr, op_orders, sp, ep)
       ELSE BuildLoop(gr, op_orders, depth, sp, future_ep, limit)

\* the first statement of the while loop of build: the candidate endpoint
future_ep(gr, depth, ep) ==
    IF Len(get_downstream_operations(gr, ep)) <= 1
    THEN find_coherent_ep(gr, ep)
    ELSE find_multi_input_ep(gr, depth, ep)

\* variant: the endpoint is never moved to the candidate
Iterate_stay(gr, depth, sp, ep, limit) ==
    LET f == future_ep(gr, depth, ep)
    IN IF f = None \/ depth[f] - depth[sp] > limit
       THEN [ep |-> ep, returns |-> TRUE]
       ELSE [ep |-> ep, returns |-> FALSE]

\* one pass of the while loop of build: the endpoint after it, and whether the
\* pass returned the block
Iterate(gr, depth, sp, ep, limit) ==
    LET f == future_ep(gr, depth, ep)
    IN IF f = None \/ depth[f] - depth[sp] > limit
       THEN [ep |-> ep, returns |-> TRUE]
       ELSE [ep |-> f, returns |-> FALSE]

build(gr, op_orders, depth, op, limit) == BuildLoop(gr, op_orders, depth, op, op, limit)

\* ------------------------------------------------------------- the state
VARIABLES
    g,      \* the graph
    pre,    \* the graph as it was when the last command was issued
    cmd,    \* the last command: [name, a, b, flag]
    orig,   \* the graph as the frontend handed it over
    phase,  \* "build" (the frontend creates the graph), "ready", "done", "again"
    blk,    \* the TrainableBlock BlockBuilder.build returned, with the depth dict
    registry,  \* the platform tables of mppq.api.extension
    queue,  \* a PriorityQueue
    popped, \* what the calls of queue.pop() returned, oldest first
    ft,     \* the call of AdaroundPass.finetune: its position, the tensors, the delegators
    obs,    \* a tensor observer with the TensorQuantizationConfig it renders
    hook,   \* an OperationObserver: its operation, its switches, its observer table
    aligned \* what QuantAlignmentPass.optimize did to the operation of a graph

vars == <<g, pre, orig, cmd, phase, blk, registry, queue, popped, ft, obs, hook, aligned>>

NoCmd == [name |-> "", a |-> None, b |-> None, flag |-> FALSE]

NoBlock == [sp |-> None, ep |-> None, rps |-> <<>>, depth |-> <<>>, op_orders |-> <<>>, err |-> ""]

\* AdaroundPass.finetune: the block that is tuned holds one computing
\* QuantableOperation with an input config and a weight config
Cfgs == {"input", "weight"}

NoDelegator ==
    [kind |-> "", param_backup |-> None, scale_backup |-> None, offset_backup |-> None,
     is_scale_trainable |-> FALSE, is_offset_trainable |-> FALSE,
     withdrawn |-> 0, finalized |-> 0]

NoFinetune ==
    [pc |-> "idle", steps |-> 0, n_out |-> 0, idx |-> 0, is_scale_trainable |-> FALSE,
     grad |-> FALSE,
     state |-> [c \in Cfgs |-> "ACTIVATED"],
     scale |-> [c \in Cfgs |-> 1], offset |-> [c \in Cfgs |-> 1], value |-> 1,
     delegators |-> [c \in Cfgs |-> NoDelegator], registered |-> {},
     pre_loss |-> 0, post_loss |-> 0, regs |-> <<>>, err |-> ""]

\* the states of a TensorQuantizationConfig the observers are built on
ConfigStates == {"INITIAL", "ACTIVATED", "PASSIVE", "FP32"}

\* DirectMSEObserver.render_quantization_config: scale_candidates, times 2^7
scale_candidates == <<1, 4, 16, 128, 512, 2048, 8192>>

\* no observer is built yet. scale is 0 while the config keeps the scale it
\* came with, and else the place of the scale in scale_candidates (1.0 is the
\* fourth); offset is 0 while the config keeps its offset, 1 for zeros
NoObserver ==
    [kind |-> "", state |-> "INITIAL", scale |-> 0, offset |-> 0,
     floating |-> FALSE, power_of_2 |-> FALSE, granularity |-> "", is_parameter |-> FALSE,
     value_shape |-> 0, collector |-> 0, last |-> "", err |-> ""]

\* no OperationObserver is built yet
NoHook ==
    [built |-> FALSE, inputs |-> <<>>, outputs |-> <<>>,
     monitor_parameter |-> FALSE, monitor_outputs |-> FALSE, monitor_inputs |-> FALSE,
     observer_table |-> {}]

\* QuantAlignmentPass.optimize was not called yet. method is "" when the
\* operation has no ALIGNMENT_MANUL_OVERRIDE in its extension_attrib
NotAligned ==
    [called |-> FALSE, type |-> "", method |-> "", concat_alignment |-> "",
     calls |-> <<>>, warned |-> FALSE]

\* _PLATFORM_TO_DISPATCHER_ and _PLATFORM_TO_PARSER_ before any registration:
\* no platform is a key ("" where the platform is no key)
NoPlatforms ==
    [dispatcher |-> [p \in 1..MaxPlatforms |-> ""], parser |-> [p \in 1..MaxPlatforms |-> ""]]

Init ==
    /\ g = EmptyGraph
    /\ pre = EmptyGraph
    /\ orig = EmptyGraph
    /\ cmd = NoCmd
    /\ phase = "build"
    /\ blk = NoBlock
    /\ registry = NoPlatforms
    /\ queue = EmptyQueue
    /\ popped = <<>>
    /\ ft = NoFinetune
    /\ obs = NoObserver
    /\ hook = NoHook
    /\ aligned = NotAligned

\* BaseGraph.create_variable: a graph input, or a parameter. The frontend
\* creates the graph inputs first, then the parameters, then the operations.
NewVariable(is_parameter) ==
    /\ phase = "build"
    /\ g.nOp = 0
    /\ g.nVar < MaxVars - 1
    /\ is_parameter \/ \A v \in 1..g.nVar : ~g.vParam[v]
    /\ LET v == g.nVar + 1
       IN g' = [g EXCEPT !.nVar = v,
                         !.vParam[v] = is_parameter,
                         !.variables[v] = v,
                         !.inputs[v] = IF is_parameter THEN None ELSE v]
    /\ UNCHANGED <<pre, orig, cmd, phase, blk, registry, queue, popped, ft, obs, hook, aligned>>

RECURSIVE LinkInputs(_, _, _)
LinkInputs(vDst, op, ins) ==
    IF ins = <<>> THEN vDst
    ELSE LinkInputs([vDst EXCEPT ![Head(ins)] = Append(@, op)], op, Tail(ins))

\* BaseGraph.create_operation with its inputs linked and fresh outputs
NewOperation(type, ins, nout) ==
    /\ phase = "build"
    /\ g.kind \in {"", "plain"}
    /\ g.nOp < MaxOps
    /\ g.nVar + nout <= MaxVars
    /\ LET op == g.nOp + 1
           outs == [i \in 1..nout |-> g.nVar + i]
       IN g' = [g EXCEPT !.nOp = op,
                         !.nVar = g.nVar + nout,
                         !.kind = "plain",
                         !.opType[op] = type,
                         !.opIn[op] = ins,
                         !.opOut[op] = outs,
                         !.operations[op] = op,
                         !.vDst = LinkInputs(g.vDst, op, ins),
                         !.vSrc = [v \in VarIds |-> IF v \in Range(outs) THEN op ELSE g.vSrc[v]],
                         !.variables = [n \in VarIds |-> IF n \in Range(outs) THEN n ELSE g.variables[n]]]
    /\ UNCHANGED <<pre, orig, cmd, phase, blk, registry, queue, popped, ft, obs, hook, aligned>>

\* the variables that carry data (no parameters)
DataVars(gr) == {v \in RegVars(gr) : ~gr.vParam[v]}

\* number of parameters the frontend gives an operation of the type
NumParams(type, bias) ==
    CASE type = "Conv" -> IF bias THEN 2 ELSE 1
      [] type = "BatchNormalization" -> 4
      [] OTHER -> 0

\* the frontend creates a Conv (weight, optional bias), a BatchNormalization
\* (alpha, beta, mean, var) or a Relu on the data variable x, with the
\* parameters the operation owns and one output
NewTypedOperation(type, x, bias) ==
    /\ phase = "build"
    /\ g.kind = "typed" \/ (g.kind = "" /\ g.nVar = 1)
    /\ g.nOp < MaxOps
    /\ type = "Conv" \/ ~bias
    /\ LET op == g.nOp + 1
           np == NumParams(type, bias)
           ps == [i \in 1..np |-> g.nVar + i]
           out == g.nVar + np + 1
           new == Range(ps) \cup {out}
       IN g' = [g EXCEPT !.nOp = op,
                         !.nVar = out,
                         !.kind = "typed",
                         !.opType[op] = type,
                         !.opIn[op] = <<x>> \o ps,
                         !.opOut[op] = <<out>>,
                         !.operations[op] = op,
                         !.vParam = [v \in VarIds |-> IF v \in Range(ps) THEN TRUE ELSE g.vParam[v]],
                         !.vDst = [v \in VarIds |-> IF v \in Range(ps) THEN <<op>>
                                                     ELSE IF v = x THEN Append(g.vDst[x], op)
                                                     ELSE g.vDst[v]],
                         !.vSrc[out] = op,
                         !.variables = [n \in VarIds |-> IF n \in new THEN n ELSE g.variables[n]]]
    /\ UNCHANGED <<pre, orig, cmd, phase, blk, registry, queue, popped, ft, obs, hook, aligned>>

\* the frontend declares the graph outputs and hands the graph over
Seal(outs) ==
    /\ phase = "build"
    /\ g.nOp >= 1
    /\ outs # {}
    /\ g' = [g EXCEPT !.outputs = [n \in VarIds |-> IF n \in outs THEN n ELSE None]]
    /\ orig' = g'
    /\ phase' = "ready"
    /\ UNCHANGED <<pre, cmd, blk, registry, queue, popped, ft, obs, hook, aligned>>

IssueOn(g0, name, a, b, flag) ==
    /\ pre' = g0
    /\ UNCHANGED <<orig, blk, registry, queue, popped, ft, obs, hook, aligned>>
    /\ cmd' = [name |-> name, a |-> a, b |-> b, flag |-> flag]

Issue(name, a, b, flag) == IssueOn(g, name, a, b, flag)

DeleteIsolated ==
    /\ phase = "ready"
    /\ Issue("DELETE_ISOLATED", None, None, FALSE)
    /\ g' = delete_isolated(g)
    /\ phase' = "done"

\* a second DELETE_ISOLATED directly after the first
DeleteIsolatedAgain ==
    /\ phase = "done"
    /\ cmd.name = "DELETE_ISOLATED"
    /\ Issue("DELETE_ISOLATED", None, None, FALSE)
    /\ g' = delete_isolated(g)
    /\ phase' = "again"

TruncateOnVar(var, mark_as_output) ==
    /\ phase = "ready"
    /\ Issue("TRUNCATE_ON_VAR", var, None, mark_as_output)
    /\ \E order \in Orders(MarkToDelete(g, {}, g.vDst[var], 1)) :
          g' = truncate_on_var(g, var, mark_as_output, order)
    /\ phase' = "done"

\* the caller's replacement Operation: a new object, named like the operation
\* it replaces or not, constructed with or without an input list of its own
NewReplacementOp(name, prefilled) ==
    LET y == g.nOp + 1
    IN [g EXCEPT !.nOp = y,
                 !.opName[y] = name,
                 !.opIn[y] = IF prefilled THEN <<1>> ELSE <<>>]

ReplaceOp(op_name, name, prefilled) ==
    /\ phase = "ready"
    /\ LET g0 == NewReplacementOp(name, prefilled)
       IN /\ IssueOn(g0, "REPLACE_OP", op_name, g0.nOp, prefilled)
          /\ g' = replace_op(g0, op_name, g0.nOp)
    /\ phase' = "done"

\* the caller's replacement Variable, likewise
NewReplacementVar(name, prefilled) ==
    LET r == g.nVar + 1
    IN [g EXCEPT !.nVar = r,
                 !.vName[r] = name,
                 !.vDst[r] = IF prefilled THEN <<1>> ELSE <<>>]

ReplaceVar(var_name, name, prefilled) ==
    /\ phase = "ready"
    /\ LET g0 == NewReplacementVar(name, prefilled)
       IN /\ IssueOn(g0, "REPLACE_VAR", var_name, g0.nVar, prefilled)
          /\ g' = replace_var(g0, var_name, g0.nVar)
    /\ phase' = "done"

FormatParameter ==
    /\ phase = "ready"
    /\ Issue("FORMAT_PARAMETERS", None, None, FALSE)
    /\ g' = format_parameter(g)
    /\ phase' = "done"

FuseBn ==
    /\ phase = "ready"
    /\ Issue("FUSE_BN", None, None, FALSE)
    /\ g' = fuse_bn(g)
    /\ phase' = "done"

InputLists(S) == UNION {[1..n -> S] : n \in 1..MaxFanIn}

Next ==
    \/ \E p \in BOOLEAN : NewVariable(p)
    \/ \E ins \in InputLists(RegVars(g)), nout \in 1..2 : NewOperation("Relu", ins, nout)
    \/ \E x \in DataVars(g), t \in OpTypes, bias \in BOOLEAN : NewTypedOperation(t, x, bias)
    \/ \E outs \in SUBSET {v \in RegVars(g) : g.vSrc[v] # None} : Seal(outs)
    \/ DeleteIsolated
    \/ DeleteIsolatedAgain
    \/ \E var \in RegVars(g), m \in BOOLEAN : TruncateOnVar(var, m)
    \/ FormatParameter
    \/ FuseBn
    \/ \E n \in 1..(g.nOp + 1), own \in BOOLEAN : ReplaceOp(n, IF own THEN g.nOp + 1 ELSE n, own)
    \/ \E n \in 1..(g.nVar + 1), own \in BOOLEAN : ReplaceVar(n, IF own THEN g.nVar + 1 ELSE n, own)

Spec == Init /\ [][Next]_vars

\* ---------------------------------------------- graphs for the BlockBuilder
\* one graph input, then at most one parameter, then the operations
NewBlockVariable(is_parameter) ==
    /\ phase = "build"
    /\ g.nOp = 0
    /\ g.nVar = IF is_parameter THEN 1 ELSE 0
    /\ LET v == g.nVar + 1
       IN g' = [g EXCEPT !.nVar = v,
                         !.kind = "block",
                         !.vParam[v] = is_parameter,
                         !.variables[v] = v,
                         !.inputs[v] = IF is_parameter THEN None ELSE v]
    /\ UNCHANGED <<pre, orig, cmd, phase, blk, registry, queue, popped, ft, obs, hook, aligned>>

\* an operation on distinct variables, with one output
NewBlockOperation(ins) ==
    /\ phase = "build"
    /\ g.nVar >= 1
    /\ g.nOp < BlockOps
    /\ g.nVar < BlockVars
    /\ \A i, j \in 1..Len(ins) : i < j => ins[i] < ins[j]
    /\ LET op == g.nOp + 1
           out == g.nVar + 1
       IN g' = [g EXCEPT !.nOp = op,
                         !.nVar = out,
                         !.opType[op] = "Relu",
                         !.opIn[op] = ins,
                         !.opOut[op] = <<out>>,
                         !.operations[op] = op,
                         !.vDst = LinkInputs(g.vDst, op, ins),
                         !.vSrc[out] = op,
                         !.variables[out] = out]
    /\ UNCHANGED <<pre, orig, cmd, phase, blk, registry, queue, popped, ft, obs, hook, aligned>>

\* the variables nothing consumes
Sinks(gr) == {v \in RegVars(gr) : gr.vSrc[v] # None /\ gr.vDst[v] = <<>>}

\* the graph outputs are the variables nothing consumes, and the variables of
\* extra
SealBlock(extra) ==
    /\ phase = "build"
    /\ g.nOp >= 1
    /\ Cardinality(extra) <= 1
    /\ g' = [g EXCEPT !.outputs = [n \in VarIds |-> IF n \in Sinks(g) \cup extra THEN n ELSE None]]
    /\ orig' = g'
    /\ phase' = "ready"
    /\ UNCHANGED <<pre, cmd, blk, registry, queue, popped, ft, obs, hook, aligned>>

\* BlockBuilder(graph, topo_order).build(op, limit), with the operations in
\* the order of their creation as topo_order
Build(op, limit) ==
    /\ phase = "ready"
    /\ pre' = g
    /\ cmd' = [name |-> "BUILD", a |-> op, b |-> limit, flag |-> FALSE]
    /\ LET op_orders == SetToSeq(RegOps(g))
           d == initialize_depth(g, op_orders)
       IN blk' = IF d.err # ""
                 THEN [NoBlock EXCEPT !.depth = d.depth, !.op_orders = op_orders, !.err = d.err]
                 ELSE LET b == build(g, op_orders, d.depth, op, limit)
                      IN [sp |-> b.sp, ep |-> b.ep, rps |-> b.rps,
                          depth |-> d.depth, op_orders |-> op_orders, err |-> ""]
    /\ phase' = "done"
    /\ UNCHANGED <<g, orig, registry, queue, popped, ft, obs, hook, aligned>>

NextBlock ==
    \/ \E p \in BOOLEAN : NewBlockVariable(p)
    \/ \E ins \in InputLists(RegVars(g)) : NewBlockOperation(ins)
    \/ \E extra \in SUBSET {v \in RegVars(g) : g.vSrc[v] # None /\ g.vDst[v] # <<>>} : SealBlock(extra)
    \/ \E op \in RegOps(g), limit \in 0..MaxLimit : Build(op, limit)

SpecBlock == Init /\ [][NextBlock]_vars

\* ------------------------------------------------ graphs for fuse_bn alone
\* a Conv (weight), a BatchNormalization (alpha, beta, mean, var) or a Relu on
\* the data variable x, with one output; a BatchNormalization may take its
\* first parameter input from a data variable y instead (a computed scale).
\* Two variables of the pool are kept for each pair fuse_bn can merge.
NewFusionOperation(type, x, y) ==
    /\ phase = "build"
    /\ g.nVar >= 1
    /\ g.nOp < FuseOps
    /\ y = None \/ type = "BatchNormalization"
    /\ LET op == g.nOp + 1
           np == NumParams(type, FALSE) - (IF y = None THEN 0 ELSE 1)
           ps == [i \in 1..np |-> g.nVar + i]
           out == g.nVar + np + 1
           new == Range(ps) \cup {out}
           ins == <<x>> \o (IF y = None THEN <<>> ELSE <<y>>) \o ps
       IN /\ out + 4 <= MaxVarObj
          /\ g' = [g EXCEPT !.nOp = op,
                            !.nVar = out,
                            !.opType[op] = type,
                            !.opIn[op] = ins,
                            !.opOut[op] = <<out>>,
                            !.operations[op] = op,
                            !.vParam = [v \in VarIds |-> IF v \in Range(ps) THEN TRUE ELSE g.vParam[v]],
                            !.vDst = LinkInputs([v \in VarIds |-> IF v \in Range(ps) THEN <<op>> ELSE g.vDst[v]],
                                                op, <<x>> \o (IF y = None THEN <<>> ELSE <<y>>)),
                            !.vSrc[out] = op,
                            !.variables = [n \in VarIds |-> IF n \in new THEN n ELSE g.variables[n]]]
    /\ UNCHANGED <<pre, orig, cmd, phase, blk, registry, queue, popped, ft, obs, hook, aligned>>

\* the newest data variables
Recent(gr) == {v \in DataVars(gr) : Cardinality({w \in DataVars(gr) : w > v}) < FuseBack}

NextFuse ==
    \/ NewBlockVariable(FALSE)
    \/ \E t \in OpTypes, x \in Recent(g), y \in Recent(g) \cup {None} :
          x # y /\ NewFusionOperation(t, x, y)
    \/ SealBlock({})
    \/ FuseBn

SpecFuse == Init /\ [][NextFuse]_vars

\* -------------------------------------- graphs for the canonicalizations
CanonTypes == {"Constant", "Identity", "Clip", "Pad", "Slice", "Resize", "Mul"}

\* the forms an operation of the type is read in: with its arguments as
\* attributes (the old opsets), with some of them missing, or as inputs
CanonForms(type) ==
    CASE type = "Constant" -> {"attr", "bare"}
      [] type = "Identity" -> {"input"}
      [] type = "Clip" -> {"attr", "bare", "input"}
      [] type = "Pad" -> {"attr", "input"}
      [] type = "Slice" -> {"attr", "bare", "input"}
      [] type = "Resize" -> {"attr", "input"}
      [] type = "Mul" -> {"input"}

CanonAttributes(type, form) ==
    CASE type = "Constant" -> {"value"}
      [] type = "Clip" /\ form = "attr" -> {"min", "max"}
      [] type = "Clip" /\ form = "bare" -> {"min"}
      [] type = "Pad" /\ form = "attr" -> {"pads", "mode"}
      [] type = "Pad" /\ form = "input" -> {"mode"}
      [] type = "Slice" /\ form = "attr" -> {"starts", "ends", "axes"}
      [] type = "Slice" /\ form = "bare" -> {"starts", "ends"}
      [] type = "Resize" -> {"mode"}
      [] OTHER -> {}

\* number of parameters the operation owns as inputs
CanonParams(type, form) ==
    CASE type = "Clip" /\ form = "input" -> 2
      [] type = "Pad" /\ form = "input" -> 1
      [] type = "Slice" /\ form = "input" -> 3
      [] type = "Resize" /\ form = "attr" -> 1
      [] type = "Resize" /\ form = "input" -> 2
      [] OTHER -> 0

\* the parameters of the graph
ParamVars(gr) == {v \in RegVars(gr) : gr.vParam[v]}

\* the frontend creates an operation of a canonicalized type. A Constant has
\* no input and one output (two in the form "bare"); an Identity reads x, a
\* data variable or a parameter; a Mul reads x and y, where y is a parameter
\* some operation already reads or, when None, a parameter of its own; the
\* others read the data variable x and own their parameters.
NewCanonOperation(type, form, x, y) ==
    /\ phase = "build"
    /\ g.nVar >= 1
    /\ g.nOp < CanonOps
    /\ form \in CanonForms(type)
    /\ (x = None) = (type = "Constant")
    /\ x \in ParamVars(g) => type = "Identity"
    /\ y # None => type = "Mul"
    /\ LET op == g.nOp + 1
           np == IF type = "Mul" /\ y = None THEN 1 ELSE CanonParams(type, form)
           ps == [i \in 1..np |-> g.nVar + i]
           nout == IF type = "Constant" /\ form = "bare" THEN 2 ELSE 1
           outs == [i \in 1..nout |-> g.nVar + np + i]
           new == Range(ps) \cup Range(outs)
           linked == (IF x = None THEN <<>> ELSE <<x>>) \o (IF y = None THEN <<>> ELSE <<y>>)
       IN /\ g.nVar + np + nout + 3 <= MaxVarObj
          /\ g' = [g EXCEPT !.nOp = op,
                            !.nVar = g.nVar + np + nout,
                            !.kind = "canon",
                            !.opType[op] = type,
                            !.opAttr[op] = CanonAttributes(type, form),
                            !.opIn[op] = linked \o ps,
                            !.opOut[op] = outs,
                            !.operations[op] = op,
                            !.vParam = [v \in VarIds |-> IF v \in Range(ps) THEN TRUE ELSE g.vParam[v]],
                            !.vDst = LinkInputs([v \in VarIds |-> IF v \in Range(ps) THEN <<op>> ELSE g.vDst[v]],
                                                op, linked),
                            !.vSrc = [v \in VarIds |-> IF v \in Range(outs) THEN op ELSE g.vSrc[v]],
                            !.variables = [n \in VarIds |-> IF n \in new THEN n ELSE g.variables[n]]]
    /\ UNCHANGED <<pre, orig, cmd, phase, blk, registry, queue, popped, ft, obs, hook, aligned>>

\* the canonicalizations of the formatter that read no payload
Canonicalizations ==
    {"FORMAT_SLICE", "FORMAT_PAD", "FORMAT_CLIP", "FORMAT_RESIZE",
     "FORMAT_CONSTANT_INPUT", "FORMAT_PARAMETERS", "REMOVE_IDENTITY"}

\* GraphFormatter.process, the branches of the canonicalizations
Canonicalized(gr, command_type) ==
    CASE command_type = "FORMAT_CLIP" -> format_clip(gr)
      [] command_type = "FORMAT_PAD" -> format_pad(gr)
      [] command_type = "FORMAT_PARAMETERS" -> format_parameter(gr)
      [] command_type = "FORMAT_CONSTANT_INPUT" -> remove_constant_input(gr)
      [] command_type = "FORMAT_SLICE" -> format_slice(gr)
      [] command_type = "FORMAT_RESIZE" -> format_resize(gr)
      [] command_type = "REMOVE_IDENTITY" -> remove_identity(gr)

Canonicalize(command_type) ==
    /\ phase = "ready"
    /\ Issue(command_type, None, None, FALSE)
    /\ g' = Canonicalized(g, command_type)
    /\ phase' = "done"

\* the same command again, directly after a first one that returned normally
CanonicalizeAgain ==
    /\ phase = "done"
    /\ cmd.name \in Canonicalizations
    /\ g.err = ""
    /\ Issue(cmd.name, None, None, FALSE)
    /\ g' = Canonicalized(g, cmd.name)
    /\ phase' = "again"

NextFormat ==
    \/ NewBlockVariable(FALSE)
    \/ \E t \in CanonTypes, f \in {"attr", "bare", "input"},
          x \in Recent(g) \cup ParamVars(g) \cup {None}, y \in ParamVars(g) \cup {None} :
          NewCanonOperation(t, f, x, y)
    \/ SealBlock({})
    \/ \E c \in Canonicalizations : Canonicalize(c)
    \/ CanonicalizeAgain

SpecFormat == Init /\ [][NextFormat]_vars

\* ------------------------------------------ graphs for the command chain
ChainTypes == {"Conv", "BatchNormalization", "Relu", "Add", "Identity", "Constant"}

\* the parameter created last
LastParam(gr) == IF ParamVars(gr) = {} THEN {} ELSE {Max(ParamVars(gr))}

\* the frontend creates a Conv (weight, and a bias when bias is set), a
\* BatchNormalization (alpha, beta, mean, var) or a Relu on the data variable
\* x; an Add of x and y, where y is a data variable, a parameter some operation
\* already reads or, when None, a parameter of its own; an Identity of x or,
\* when x is None, of a parameter of its own; a Constant without input
NewChainOperation(type, x, y, bias) ==
    /\ phase = "build"
    /\ g.nVar >= 1
    /\ x = None => type \in {"Identity", "Constant"}
    /\ type = "Constant" => x = None
    /\ y # None => type = "Add" /\ y # x
    /\ bias => type = "Conv"
    /\ LET op == g.nOp + 1
           np == CASE type = "Conv" -> IF bias THEN 2 ELSE 1
                   [] type = "BatchNormalization" -> 4
                   [] type = "Add" /\ y = None -> 1
                   [] type = "Identity" /\ x = None -> 1
                   [] OTHER -> 0
           ps == [i \in 1..np |-> g.nVar + i]
           out == g.nVar + np + 1
           new == Range(ps) \cup {out}
           linked == (IF x = None THEN <<>> ELSE <<x>>) \o (IF y = None THEN <<>> ELSE <<y>>)
       IN /\ out + 3 <= MaxVarObj
          /\ g' = [g EXCEPT !.nOp = op,
                            !.nVar = out,
                            !.kind = "chain",
                            !.opType[op] = type,
                            !.opAttr[op] = IF type = "Constant" THEN {"value"} ELSE {},
                            !.opIn[op] = linked \o ps,
                            !.opOut[op] = <<out>>,
                            !.operations[op] = op,
                            !.vParam = [v \in VarIds |-> IF v \in Range(ps) THEN TRUE ELSE g.vParam[v]],
                            !.vDst = LinkInputs([v \in VarIds |-> IF v \in Range(ps) THEN <<op>> ELSE g.vDst[v]],
                                                op, linked),
                            !.vSrc[out] = op,
                            !.variables = [n \in VarIds |-> IF n \in new THEN n ELSE g.variables[n]]]
    /\ UNCHANGED <<pre, orig, cmd, phase, blk, registry, queue, popped, ft, obs, hook, aligned>>

\* the parameters whose values fuse_bias_add finds in the shape of a bias:
\* all of them, or none
Shapes(gr) == {ParamVars(gr), {}}

FuseBiasAdd(shaped) ==
    /\ phase = "ready"
    /\ Issue("FUSE_BIAS_ADD", shaped, None, FALSE)
    /\ g' = fuse_bias_add(g, shaped)
    /\ phase' = "done"

FormatGraph(switches, shaped) ==
    /\ phase = "ready"
    /\ Issue("FORMAT_GRAPH", shaped, switches, FALSE)
    /\ g' = format_graph(g, switches, shaped)
    /\ phase' = "done"

NextChain ==
    \/ NewBlockVariable(FALSE)
    \/ \E t \in ChainTypes, x \in Recent(g) \cup {None},
          y \in Recent(g) \cup LastParam(g) \cup {None}, bias \in BOOLEAN :
          g.nOp < ChainOps /\ NewChainOperation(t, x, y, bias)
    \/ SealBlock({})
    \/ \E shaped \in Shapes(g) : FuseBiasAdd(shaped)
    \/ \E switches \in {Switches, {}}, shaped \in Shapes(g) : FormatGraph(switches, shaped)

SpecChain == Init /\ [][NextChain]_vars

\* processor(command) on a chain of processors
Call(chain, command_type) ==
    /\ phase = "ready"
    /\ Issue(command_type, chain, "__call__", FALSE)
    /\ g' = call(chain, g, command_type, ParamVars(g))
    /\ phase' = "done"

\* processor.process(command), called directly
Process(processor, command_type) ==
    /\ phase = "ready"
    /\ Issue(command_type, <<processor>>, "process", FALSE)
    /\ g' = process(processor, g, command_type, ParamVars(g))
    /\ phase' = "done"

\* the chains a caller builds: one processor, or the chain of format_graph
Chains == {<<p>> : p \in Processors} \cup {FormatterChain}

NextRoute ==
    \/ NewBlockVariable(FALSE)
    \/ \E t \in ChainTypes, x \in Recent(g) \cup {None},
          y \in Recent(g) \cup LastParam(g) \cup {None}, bias \in BOOLEAN :
          g.nOp < RouteOps /\ NewChainOperation(t, x, y, bias)
    \/ SealBlock({})
    \/ \E chain \in Chains, c \in CommandTypes : Call(chain, c)
    \/ \E p \in Processors, c \in CommandTypes : Process(p, c)

SpecRoute == Init /\ [][NextRoute]_vars

\* ------------------------------------------- graphs for fuse_layernorm
\* the operation types of the first layernorm pattern, and a Relu as the
\* operation that produces the normalized tensor
PatternTypes ==
    {"Relu", "ReduceMean", "GlobalAveragePool", "Sub", "Pow", "Add", "Sqrt", "Div", "Mul"}

Means == {"ReduceMean", "GlobalAveragePool"}

SrcType(gr, v) == IF v = None \/ gr.vSrc[v] = None THEN "" ELSE gr.opType[gr.vSrc[v]]

\* what the frontend of a model with layer normalizations emits: a Relu on the
\* graph input; a mean of the Relu's or of a Pow's output; Sub(x, mean(x));
\* Pow(sub, exponent); Add(mean, epsilon) or Add(mul, bias); Sqrt(add);
\* Div(sub, sqrt); Mul(div, scale). exponent, epsilon, bias and scale are
\* parameters of the operation.
Emits(gr, type, x, y) ==
    CASE type = "Relu" -> gr.nOp = 0 /\ y = None
      [] type \in Means -> y = None /\ SrcType(gr, x) \in {"Relu", "Pow"}
      [] type = "Sub" -> /\ SrcType(gr, x) = "Relu"
                         /\ SrcType(gr, y) \in Means
                         /\ x \in Range(gr.opIn[gr.vSrc[y]])
      [] type = "Pow" -> y = None /\ SrcType(gr, x) = "Sub"
      [] type = "Add" -> y = None /\ SrcType(gr, x) \in Means \cup {"Mul"}
      [] type = "Sqrt" -> y = None /\ SrcType(gr, x) = "Add"
      [] type = "Div" -> SrcType(gr, x) = "Sub" /\ SrcType(gr, y) = "Sqrt"
      [] type = "Mul" -> y = None /\ SrcType(gr, x) = "Div"
      [] OTHER -> FALSE

\* the operation reads the newest data variable, unless it is a Sub or a Mul
\* that follows a Mul (a second normalization of the same tensor, a second
\* scale of the same quotient); axes says whether a ReduceMean carries the
\* attribute "axes"
NewPatternOperation(type, x, y, axes) ==
    /\ phase = "build"
    /\ g.nVar >= 1
    /\ g.nOp < LnOps
    /\ Emits(g, type, x, y)
    /\ \/ Max(DataVars(g)) \in {x, y}
       \/ type \in {"Sub", "Mul"} /\ SrcType(g, Max(DataVars(g))) = "Mul"
    /\ type = "Sub" => Cardinality({o \in RegOps(g) : g.opType[o] = "Sub"}) < LnBranches
    /\ axes => type = "ReduceMean"
    /\ LET op == g.nOp + 1
           np == IF type \in {"Pow", "Add", "Mul"} THEN 1 ELSE 0
           ps == [i \in 1..np |-> g.nVar + i]
           out == g.nVar + np + 1
           new == Range(ps) \cup {out}
           linked == <<x>> \o (IF y = None THEN <<>> ELSE <<y>>)
       IN /\ out + 4 <= MaxVarObj
          /\ g' = [g EXCEPT !.nOp = op,
                            !.nVar = out,
                            !.kind = "pattern",
                            !.opType[op] = type,
                            !.opAttr[op] = IF axes THEN {"axes"} ELSE {},
                            !.opIn[op] = linked \o ps,
                            !.opOut[op] = <<out>>,
                            !.operations[op] = op,
                            !.vParam = [v \in VarIds |-> IF v \in Range(ps) THEN TRUE ELSE g.vParam[v]],
                            !.vDst = LinkInputs([v \in VarIds |-> IF v \in Range(ps) THEN <<op>> ELSE g.vDst[v]],
                                                op, linked),
                            !.vSrc[out] = op,
                            !.variables = [n \in VarIds |-> IF n \in new THEN n ELSE g.variables[n]]]
    /\ UNCHANGED <<pre, orig, cmd, phase, blk, registry, queue, popped, ft, obs, hook, aligned>>

\* GraphMerger(graph).fuse_layernorm(exclusive_search)
FuseLayernorm(exclusive_search) ==
    /\ phase = "ready"
    /\ Issue("FUSE_LAYERNORM", exclusive_search, None, FALSE)
    /\ g' = fuse_layernorm(g, exclusive_search)
    /\ phase' = "done"

NextLayernorm ==
    \/ NewBlockVariable(FALSE)
    \/ \E t \in PatternTypes, x \in DataVars(g), y \in DataVars(g) \cup {None}, axes \in BOOLEAN :
          NewPatternOperation(t, x, y, axes)
    \/ SealBlock({})
    \/ \E exclusive_search \in BOOLEAN : FuseLayernorm(exclusive_search)

SpecLayernorm == Init /\ [][NextLayernorm]_vars

\* ------------------------------------------- graphs for dispatch_graph
\* the dispatching_override arguments a caller passes: nothing, something
\* that is no dict, or a dict with one entry
OverrideArgs ==
    {[kind |-> "None", opname |-> 1, isint |-> TRUE, platform |-> "FP32"],
     [kind |-> "list", opname |-> 1, isint |-> TRUE, platform |-> "FP32"]}
    \cup {[kind |-> "dict", opname |-> n, isint |-> i, platform |-> "INT8"] :
             n \in 1..(DispatchOps + 1), i \in BOOLEAN}

DispatchGraph(dispatcher, dispatching_override, ignored_scope) ==
    /\ phase = "ready"
    /\ IssueOn(g, "DISPATCH_GRAPH", dispatcher, <<dispatching_override, ignored_scope>>, FALSE)
    /\ g' = dispatch_graph(g, dispatcher, dispatching_override, ignored_scope)
    /\ phase' = "done"

NextDispatch ==
    \/ NewBlockVariable(FALSE)
    \/ \E t \in ChainTypes, x \in Recent(g) \cup {None},
          y \in Recent(g) \cup LastParam(g) \cup {None}, bias \in BOOLEAN :
          g.nOp < DispatchOps /\ NewChainOperation(t, x, y, bias)
    \/ SealBlock({})
    \/ \E dispatcher \in DispatcherArgs, dispatching_override \in OverrideArgs,
          ignored_scope \in {{}, {1}} :
          DispatchGraph(dispatcher, dispatching_override, ignored_scope)

SpecDispatch == Init /\ [][NextDispatch]_vars

\* ------------------------------------------------- platform registration
\* the tables a caller passes: names of dispatchers, names of parsers
DispatcherTables == {{}, {"allin"}, {"conservative"}}
ParserTables == {{}, {"onnx"}}

\* the name a platform is bound to: the key of the table, or the default
TableName(table) == IF table = {} THEN "default" ELSE CHOOSE n \in table : TRUE

\* variant: a platform that is a key already is bound again
register_platform_again(reg, platform, dispatcher, parsers) ==
    [registry |-> [reg EXCEPT !.dispatcher[platform] = TableName(dispatcher),
                              !.parser[platform] = TableName(parsers)],
     err |-> ""]

\* register_platform(platform, dispatcher, parsers): KeyError when the
\* platform is registered already; otherwise the platform becomes a key of
\* every table (load_quantizer reads _PLATFORM_TO_PARSER_[platform] and
\* _PLATFORM_TO_DISPATCHER_[platform] of a platform registered with an empty
\* table)
register_platform(reg, platform, dispatcher, parsers) ==
    IF reg.dispatcher[platform] # "" \/ reg.parser[platform] # ""
    THEN [registry |-> reg, err |-> "KeyError"]
    ELSE [registry |-> [reg EXCEPT !.dispatcher[platform] = TableName(dispatcher),
                                   !.parser[platform] = TableName(parsers)],
          err |-> ""]

RegisterPlatform(platform, dispatcher, parsers) ==
    /\ LET r == register_platform(registry, platform, dispatcher, parsers)
       IN /\ registry' = r.registry
          /\ cmd' = [name |-> "REGISTER_PLATFORM", a |-> platform,
                     b |-> <<dispatcher, parsers>>, flag |-> r.err = "KeyError"]
    /\ UNCHANGED <<g, pre, orig, phase, blk, queue, popped, ft, obs, hook, aligned>>

NextPlatform ==
    \E platform \in 1..MaxPlatforms, dispatcher \in DispatcherTables, parsers \in ParserTables :
        RegisterPlatform(platform, dispatcher, parsers)

SpecPlatform == Init /\ [][NextPlatform]_vars

\* --------------------------------------------- BlockBuilder construction
RECURSIVE TopologicalFrom(_, _)
\* the topological orders of the graph that start with the list placed
TopologicalFrom(gr, placed) ==
    LET rest == RegOps(gr) \ Range(placed)
        free == {op \in rest : Range(get_upstream_operations(gr, op)) \subseteq Range(placed)}
    IN IF rest = {} THEN {placed}
       ELSE UNION {TopologicalFrom(gr, Append(placed, op)) : op \in free}

\* what graph.topological_sort() may hand to BlockBuilder
TopologicalOrders(gr) == TopologicalFrom(gr, <<>>)

Reverse(s) == [i \in 1..Len(s) |-> s[Len(s) + 1 - i]]

\* BlockBuilder(graph, topo_order): the constructor runs initialize_depth
NewBlockBuilder(topo_order) ==
    /\ phase = "ready"
    /\ pre' = g
    /\ cmd' = [name |-> "BLOCK_BUILDER", a |-> None, b |-> None, flag |-> FALSE]
    /\ LET d == initialize_depth(g, topo_order)
       IN blk' = [NoBlock EXCEPT !.depth = d.depth, !.op_orders = topo_order, !.err = d.err]
    /\ phase' = "done"
    /\ UNCHANGED <<g, orig, registry, queue, popped, ft, obs, hook, aligned>>

\* the caller hands over a topological order of the graph, or, by mistake,
\* the operations in the reverse of their creation
NextDepth ==
    \/ \E p \in BOOLEAN : NewBlockVariable(p)
    \/ \E ins \in InputLists(RegVars(g)) : NewBlockOperation(ins)
    \/ \E extra \in SUBSET {v \in RegVars(g) : g.vSrc[v] # None /\ g.vDst[v] # <<>>} : SealBlock(extra)
    \/ \E topo_order \in TopologicalOrders(g) \cup {Reverse(SetToSeq(RegOps(g)))} :
          NewBlockBuilder(topo_order)

SpecDepth == Init /\ [][NextDepth]_vars


\* ------------------------------------------ build, one pass at a time
\* BlockBuilder(graph, topo_order).build(op, limit) up to the while loop; blk
\* holds sp and the current ep while phase is "loop"
BuildBegin(op, limit) ==
    /\ phase = "ready"
    /\ pre' = g
    /\ cmd' = [name |-> "BUILD", a |-> op, b |-> limit, flag |-> FALSE]
    /\ LET op_orders == SetToSeq(RegOps(g))
           d == initialize_depth(g, op_orders)
       IN IF d.err # ""
          THEN /\ blk' = [NoBlock EXCEPT !.depth = d.depth, !.op_orders = op_orders, !.err = d.err]
               /\ phase' = "done"
          ELSE /\ blk' = [NoBlock EXCEPT !.sp = op, !.ep = op, !.depth = d.depth, !.op_orders = op_orders]
               /\ phase' = "loop"
    /\ UNCHANGED <<g, orig, registry, queue, popped, ft, obs, hook, aligned>>

\* one pass of the while loop
BuildStep ==
    /\ phase = "loop"
    /\ LET i == Iterate(g, blk.depth, blk.sp, blk.ep, cmd.b)
       IN IF i.returns
          THEN /\ blk' = [blk EXCEPT !.rps = create_block(g, blk.op_orders, blk.sp, blk.ep).rps]
               /\ phase' = "done"
          ELSE /\ blk' = [blk EXCEPT !.ep = i.ep]
               /\ phase' = phase
    /\ UNCHANGED <<g, pre, orig, cmd, registry, queue, popped, ft, obs, hook, aligned>>

NextSteps ==
    \/ \E p \in BOOLEAN : NewBlockVariable(p)
    \/ \E ins \in InputLists(RegVars(g)) : g.nOp < StepOps /\ NewBlockOperation(ins)
    \/ SealBlock({})
    \/ \E op \in RegOps(g), limit \in 0..MaxLimit : BuildBegin(op, limit)
    \/ BuildStep

\* a pass of the loop can be taken and changes the state
BuildStepEnabled ==
    /\ phase = "loop"
    /\ LET i == Iterate(g, blk.depth, blk.sp, blk.ep, cmd.b)
       IN i.returns \/ i.ep # blk.ep

\* the loop is not suspended: a pass that can be taken is taken (weak
\* fairness of BuildStep, with its enabling condition written out)
SpecSteps ==
    /\ Init
    /\ [][NextSteps]_vars
    /\ ([]<>~BuildStepEnabled \/ []<><<BuildStep>>_vars)

\* ------------------------------------------------- PriorityQueue alone
\* least_first_queue.push(depth, op)
Push(depth, op) ==
    /\ queue' = push(queue, depth, op)
    /\ cmd' = [name |-> "push", a |-> depth, b |-> op, flag |-> FALSE]
    /\ UNCHANGED <<g, pre, orig, phase, blk, registry, popped, ft, obs, hook, aligned>>

\* least_first_queue.pop(); cmd.flag says that the call raised IndexError
Pop ==
    /\ LET p == pop(queue)
       IN /\ queue' = p.q
          /\ popped' = IF p.err = "" THEN Append(popped, p.ele) ELSE popped
          /\ cmd' = [name |-> "pop", a |-> None, b |-> None, flag |-> p.err = "IndexError"]
    /\ UNCHANGED <<g, pre, orig, phase, blk, registry, ft, obs, hook, aligned>>

NextQueue ==
    \/ \E depth \in 0..QueueDepth, op \in 1..QueueOps : Push(depth, op)
    \/ Pop

SpecQueue == Init /\ [][NextQueue]_vars

\* ------------------------------------------------- AdaroundPass.finetune
\* The block that is tuned holds one computing QuantableOperation; its
\* config_with_variable is (input config, activation) and (weight config,
\* parameter). Tensors are modelled by the number of the assignment that gave
\* them their value: 1 is the value at the call of finetune, 2 the value
\* tune_block_weight_scale trains, 3 the value the training loop trains, 4 the
\* weight AdaRoundDelegator.finalize writes. None stands for a backup that
\* is not kept.
\* LSQDelegator.__init__: linear says that the policy of the config passes
\* policy_check and linear_check and its scale is a tensor, asymmetric that
\* it passes the policy_check of the offset and its offset is a tensor
LSQDelegator(f, cfg, is_parameter, is_parameter_trainable, is_scale_trainable, is_offset_trainable, linear, asymmetric) ==
    LET state_check == f.state[cfg] = "ACTIVATED"
        scale_trainable == is_scale_trainable /\ state_check /\ linear
        offset_trainable == is_offset_trainable /\ state_check /\ asymmetric
    IN [kind |-> "LSQ",
        param_backup |-> IF is_parameter /\ is_parameter_trainable THEN f.value ELSE None,
        scale_backup |-> IF scale_trainable THEN f.scale[cfg] ELSE None,
        offset_backup |-> IF offset_trainable THEN f.offset[cfg] ELSE None,
        is_scale_trainable |-> scale_trainable,
        is_offset_trainable |-> offset_trainable,
        withdrawn |-> 0, finalized |-> 0]

\* AdaRoundDelegator.__init__ (the variable is a parameter, the config is not
\* PASSIVE: finetune tests both before it creates the delegator)
AdaRoundDelegator(f, cfg) ==
    [NoDelegator EXCEPT !.kind = "AdaRound", !.param_backup = f.value]

\* LSQDelegator.withdraw / AdaRoundDelegator.withdraw of the delegator d of cfg
withdraw(f, cfg, d) ==
    LET f1 == IF d.kind = "LSQ" /\ d.scale_backup # None
              THEN [f EXCEPT !.scale[cfg] = d.scale_backup] ELSE f
        f2 == IF d.kind = "LSQ" /\ d.offset_backup # None
              THEN [f1 EXCEPT !.offset[cfg] = d.offset_backup] ELSE f1
    IN IF d.param_backup # None THEN [f2 EXCEPT !.value = d.param_backup] ELSE f2

\* LSQDelegator.finalize drops the backups, AdaRoundDelegator.finalize writes
\* the rounded weight
finalize(f, cfg, d) ==
    IF d.kind = "AdaRound" THEN [f EXCEPT !.value = 4]
    ELSE [f EXCEPT !.delegators[cfg].param_backup = None,
                   !.delegators[cfg].scale_backup = None,
                   !.delegators[cfg].offset_backup = None]

\* the optimizer steps on LSQDelegator.trainable_tensors(): offset and scale
\* where trainable, and the value of a parameter. moved names the tensors
\* whose gradient was not zero
Train(f, cfg, d, is_parameter, moved, stamp) ==
    [f EXCEPT !.scale[cfg] = IF d.is_scale_trainable /\ "scale" \in moved THEN stamp ELSE @,
              !.offset[cfg] = IF d.is_offset_trainable /\ "offset" \in moved THEN stamp ELSE @,
              !.value = IF is_parameter /\ "value" \in moved THEN stamp ELSE @]

\* tune_block_weight_scale: worse says that post_loss > initial_loss
tune_block_weight_scale(f, linear, asymmetric, moved, worse) ==
    LET delegator == LSQDelegator(f, "weight", TRUE, FALSE, TRUE, TRUE, linear, asymmetric)
        f1 == Train(f, "weight", delegator, TRUE, moved, 2)
    IN IF worse THEN withdraw(f1, "weight", delegator) ELSE f1

\* finetune, "collect trainable params": the delegator of one config
Collect(f, cfg, linear) ==
    IF f.state[cfg] \notin {"ACTIVATED", "PASSIVE"} THEN f
    ELSE IF cfg = "weight" /\ f.state[cfg] # "PASSIVE"
    THEN [f EXCEPT !.delegators[cfg] = AdaRoundDelegator(f, cfg),
                   !.registered = @ \cup {cfg}]
    ELSE IF f.is_scale_trainable
    THEN [f EXCEPT !.delegators[cfg] =
                       LSQDelegator(f, cfg, cfg = "weight", TRUE, TRUE, FALSE, linear, FALSE),
                   !.registered = @ \cup {cfg}]
    ELSE f

\* the configs whose delegator gave trainable_params a tensor that requires a
\* gradient: the rounding of an AdaRoundDelegator always does, the scale and
\* the parameter of an LSQDelegator do when the block was given gradients
Trainable(f) ==
    {cfg \in Cfgs :
        \/ f.delegators[cfg].kind = "AdaRound"
        \/ /\ f.delegators[cfg].kind = "LSQ"
           /\ f.grad
           /\ f.delegators[cfg].is_scale_trainable \/ cfg = "weight"}

\* finetune up to the training loop. pre_loss is what compute_block_loss
\* returns, dataset_length is len(qt_inputs)
finetune_begin(f, dataset_length, pre_loss, linear, asymmetric, moved, worse) ==
    LET f1 == [f EXCEPT !.pre_loss = pre_loss]
        f2 == tune_block_weight_scale(f1, linear, asymmetric, moved, worse)
        f3 == Collect(Collect(f2, "input", linear), "weight", linear)
    IN IF Trainable(f3) = {}
       THEN [f3 EXCEPT !.registered = {}, !.pre_loss = 0, !.post_loss = 0, !.pc = "returned"]
       ELSE IF dataset_length = 0 THEN [f3 EXCEPT !.err = "ValueError", !.pc = "raised"]
       ELSE [f3 EXCEPT !.pc = "train", !.idx = 0]

\* AdaroundRegTerm.forward: the round loss is the constant 0 while
\* iters < max_iter * warm_ratio, with warm_ratio = 0.2 (for max_iter up to
\* MaxSteps + 1 the float product compares with an integer as max_iter / 5)
forward_is_zero(max_iter, iters) == 5 * iters < max_iter

\* the value of idx at "collect reg terms": the enumeration of output_names
\* has bound idx again
regularization_step(t, n_out) == IF n_out > 0 THEN n_out - 1 ELSE t

\* one pass of the training loop of finetune, at step f.idx
finetune_step(f) ==
    LET t == f.idx
        idx == regularization_step(t, f.n_out)
        regs == IF f.delegators["weight"].kind = "AdaRound"
                THEN <<[step |-> t, iters |-> idx, zero |-> forward_is_zero(f.steps, idx)]>>
                ELSE <<>>
        moved == IF f.grad THEN {"scale", "value"} ELSE {}
        f1 == Train(f, "input", f.delegators["input"], FALSE, moved, 3)
        f2 == IF f.delegators["weight"].kind = "LSQ"
              THEN Train(f1, "weight", f.delegators["weight"], TRUE, moved, 3) ELSE f1
    IN [f2 EXCEPT !.regs = @ \o regs, !.idx = t + 1]

\* "check and withdraw" for one config
Settle(f, cfg) ==
    LET d == f.delegators[cfg] IN
    IF d.kind = "" THEN f
    ELSE IF f.post_loss > f.pre_loss
    THEN [withdraw(f, cfg, d) EXCEPT !.delegators[cfg].withdrawn = @ + 1,
                                     !.registered = @ \ {cfg}]
    ELSE [finalize(f, cfg, d) EXCEPT !.delegators[cfg].finalized = @ + 1,
                                     !.registered = @ \ {cfg}]

\* finetune after the training loop. post_loss is what compute_block_loss
\* returns
finetune_end(f, post_loss) ==
    [Settle(Settle([f EXCEPT !.post_loss = post_loss], "input"), "weight") EXCEPT !.pc = "done"]

\* ------------------------------------------------ one call of finetune
\* finetune is called on the block with steps training steps; grad says that
\* enable_block_gradient made the scales and parameters of the block take
\* gradients
FinetuneBegin(steps, n_out, is_scale_trainable, weight_state, grad, dataset_length, pre_loss, linear, asymmetric, moved, worse) ==
    /\ ft.pc = "idle"
    /\ moved # {} => grad
    /\ worse => moved # {}
    /\ ft' = finetune_begin([ft EXCEPT !.steps = steps, !.n_out = n_out, !.grad = grad,
                                       !.is_scale_trainable = is_scale_trainable,
                                       !.state["weight"] = weight_state],
                            dataset_length, pre_loss, linear, asymmetric, moved, worse)
    /\ UNCHANGED <<g, pre, orig, cmd, phase, blk, registry, queue, popped, obs, hook, aligned>>

FinetuneStep ==
    /\ ft.pc = "train"
    /\ ft.idx < ft.steps
    /\ ft' = finetune_step(ft)
    /\ UNCHANGED <<g, pre, orig, cmd, phase, blk, registry, queue, popped, obs, hook, aligned>>

FinetuneEnd(post_loss) ==
    /\ ft.pc = "train"
    /\ ft.idx = ft.steps
    /\ ft' = finetune_end(ft, post_loss)
    /\ UNCHANGED <<g, pre, orig, cmd, phase, blk, registry, queue, popped, obs, hook, aligned>>

NextFinetune ==
    \/ \E steps \in 1..MaxSteps, n_out \in 1..MaxOutputs, is_scale_trainable \in BOOLEAN,
          weight_state \in {"ACTIVATED", "PASSIVE", "FP32"}, grad \in BOOLEAN,
          dataset_length \in 0..1, pre_loss \in 0..MaxLoss,
          linear \in BOOLEAN, asymmetric \in BOOLEAN,
          moved \in SUBSET {"scale", "offset", "value"}, worse \in BOOLEAN :
          FinetuneBegin(steps, n_out, is_scale_trainable, weight_state, grad, dataset_length,
                        pre_loss, linear, asymmetric, moved, worse)
    \/ FinetuneStep
    \/ \E post_loss \in 0..MaxLoss : FinetuneEnd(post_loss)

SpecFinetune == Init /\ [][NextFinetune]_vars

\* ------------------------------------------- ConstantObserver, DirectMSEObserver
\* DirectMSEObserver.__init__: the policy must be FLOATING and POWER_OF_2
DirectMSEObserver(o) ==
    IF ~o.floating \/ ~o.power_of_2 THEN [o EXCEPT !.err = "TypeError"]
    ELSE [o EXCEPT !.kind = "floating"]

\* ConstantObserver.__init__
ConstantObserver(o) == [o EXCEPT !.kind = "constant"]

\* ConstantObserver.observe: channels is value.shape[channel_axis]
ConstantObserver_observe(o, channels) ==
    IF o.state # "INITIAL" THEN o ELSE [o EXCEPT !.value_shape = channels]

ConstantObserver_render_quantization_config(o) ==
    IF o.state # "INITIAL" THEN o
    ELSE IF ~o.floating THEN [o EXCEPT !.err = "TypeError"]
    ELSE IF o.granularity = "PER_TENSOR"
    THEN [o EXCEPT !.scale = 4, !.offset = 1, !.state = "ACTIVATED"]
    ELSE IF o.granularity = "PER_CHANNEL"
    THEN IF o.value_shape = 0 THEN [o EXCEPT !.err = "IndexError"]
         ELSE [o EXCEPT !.scale = 4, !.offset = 1, !.state = "ACTIVATED"]
    ELSE o

DirectMSEObserver_observe(o) ==
    IF o.state # "INITIAL" THEN o
    ELSE IF o.granularity \in {"PER_CHANNEL", "PER_TENSOR"}
    THEN [o EXCEPT !.collector = @ + 1]
    ELSE o

\* variant: the config is activated before the collector is looked at
DirectMSEObserver_render_first(o, best) ==
    IF o.state # "INITIAL" THEN o
    ELSE IF o.collector = 0 THEN [o EXCEPT !.state = "ACTIVATED", !.err = "PermissionError"]
    ELSE [o EXCEPT !.state = "ACTIVATED", !.scale = best, !.offset = 1]

\* DirectMSEObserver.render_quantization_config: best is the place in
\* scale_candidates of the scale with the least loss
DirectMSEObserver_render_quantization_config(o, best) ==
    IF o.state # "INITIAL" THEN o
    ELSE IF o.collector = 0 THEN [o EXCEPT !.err = "PermissionError"]
    ELSE IF o.granularity \in {"PER_CHANNEL", "PER_TENSOR"}
    THEN [o EXCEPT !.state = "ACTIVATED", !.scale = best, !.offset = 1]
    ELSE [o EXCEPT !.state = "ACTIVATED"]

\* build_observer(variable, config) for the algorithms "constant" and "floating"
BuildObserver(kind, state, floating, power_of_2, granularity, is_parameter) ==
    /\ obs.last = ""
    /\ LET o == [NoObserver EXCEPT !.state = state, !.floating = floating,
                                   !.power_of_2 = power_of_2, !.granularity = granularity,
                                   !.is_parameter = is_parameter, !.last = "build"]
       IN obs' = IF kind = "constant" THEN ConstantObserver(o) ELSE DirectMSEObserver(o)
    /\ UNCHANGED <<g, pre, orig, cmd, phase, blk, registry, queue, popped, ft, hook, aligned>>

\* observer.observe(value)
Observe(channels) ==
    /\ obs.kind # ""
    /\ obs.collector < MaxObserved
    /\ obs' = [(IF obs.kind = "constant"
                THEN ConstantObserver_observe([obs EXCEPT !.err = ""], channels)
                ELSE DirectMSEObserver_observe([obs EXCEPT !.err = ""]))
               EXCEPT !.last = "observe"]
    /\ UNCHANGED <<g, pre, orig, cmd, phase, blk, registry, queue, popped, ft, hook, aligned>>

\* observer.render_quantization_config()
Render(best) ==
    /\ obs.kind # ""
    /\ obs' = [(IF obs.kind = "constant"
                THEN ConstantObserver_render_quantization_config([obs EXCEPT !.err = ""])
                ELSE DirectMSEObserver_render_quantization_config([obs EXCEPT !.err = ""], best))
               EXCEPT !.last = "render"]
    /\ UNCHANGED <<g, pre, orig, cmd, phase, blk, registry, queue, popped, ft, hook, aligned>>

NextObserver ==
    \/ \E kind \in {"constant", "floating"}, state \in ConfigStates,
          floating \in BOOLEAN, power_of_2 \in BOOLEAN,
          granularity \in {"PER_TENSOR", "PER_CHANNEL"}, is_parameter \in BOOLEAN :
          BuildObserver(kind, state, floating, power_of_2, granularity, is_parameter)
    \/ \E channels \in 1..MaxChannels : Observe(channels)
    \/ \E best \in 1..Len(scale_candidates) : Render(best)

SpecObserver == Init /\ [][NextObserver]_vars

\* ---------------------------------------------------- OperationObserver
\* OperationObserver.build_hook: the keys of observer_table. inputs holds for
\* each input of the operation whether it is a parameter and the state of its
\* config, outputs the state of the config of each output
build_hook(inputs, outputs, monitor_parameter, monitor_outputs, monitor_inputs) ==
    {<<"input", i>> : i \in {j \in 1..Len(inputs) :
        /\ inputs[j].state = "INITIAL"
        /\ \/ inputs[j].is_parameter /\ monitor_parameter
           \/ monitor_inputs}}
    \cup
    {<<"output", i>> : i \in {j \in 1..Len(outputs) :
        monitor_outputs /\ outputs[j].state = "INITIAL"}}

\* OperationObserver(operation, monitor_parameter, monitor_outputs, monitor_inputs)
NewOperationObserver(inputs, outputs, monitor_parameter, monitor_outputs, monitor_inputs) ==
    /\ ~hook.built
    /\ hook' = [built |-> TRUE, inputs |-> inputs, outputs |-> outputs,
                monitor_parameter |-> monitor_parameter,
                monitor_outputs |-> monitor_outputs,
                monitor_inputs |-> monitor_inputs,
                observer_table |-> build_hook(inputs, outputs, monitor_parameter,
                                              monitor_outputs, monitor_inputs)]
    /\ UNCHANGED <<g, pre, orig, cmd, phase, blk, registry, queue, popped, ft, obs, aligned>>

\* the inputs and the outputs an operation may have
HookInputs ==
    UNION {[1..n -> [is_parameter : BOOLEAN, state : ConfigStates]] : n \in 0..MaxHookInputs}

HookOutputs == UNION {[1..n -> [state : ConfigStates]] : n \in 0..MaxHookOutputs}

NextHook ==
    \E inputs \in HookInputs, outputs \in HookOutputs,
       monitor_parameter \in BOOLEAN, monitor_outputs \in BOOLEAN, monitor_inputs \in BOOLEAN :
       NewOperationObserver(inputs, outputs, monitor_parameter, monitor_outputs, monitor_inputs)

SpecHook == Init /\ [][NextHook]_vars

\* --------------------------------------------------- QuantAlignmentPass
\* the classes of TYPES_FOR_ALIGNMENT, "Resize", and any other type
AlignmentTypes == {"Elementwise", "Concat", "Pooling", "Resize", "Other"}

\* the values of ALIGNMENT_MANUL_OVERRIDE in extension_attrib: "" is no entry
OverrideMethods == {"", "Align to Large", "Align to Output", "Align to Input"}

\* QuantAlignmentPass.optimize on a graph of one QuantableOperation: the
\* align_* methods it calls and whether it warns
optimize(type, method, elementwise_alignment, concat_alignment, pooling_alignment, resize_alignment) ==
    IF type = "Elementwise"
    THEN IF elementwise_alignment = "None" THEN [calls |-> <<>>, warned |-> FALSE]
         ELSE IF elementwise_alignment = "Align to Large"
         THEN [calls |-> <<"align_to_large">>, warned |-> FALSE]
         ELSE [calls |-> <<"align_to_output">>, warned |-> FALSE]
    ELSE IF type = "Concat"
    THEN IF concat_alignment = "None" THEN [calls |-> <<>>, warned |-> FALSE]
         ELSE IF concat_alignment = "Align to Large"
         THEN [calls |-> <<"align_to_large">>, warned |-> FALSE]
         ELSE [calls |-> <<"align_to_output">>, warned |-> FALSE]
    ELSE IF type = "Pooling"
    THEN IF pooling_alignment = "None" THEN [calls |-> <<>>, warned |-> FALSE]
         ELSE IF pooling_alignment = "Align to Input"
         THEN [calls |-> <<"align_to_input">>, warned |-> FALSE]
         ELSE [calls |-> <<"align_to_output">>, warned |-> FALSE]
    ELSE IF type = "Resize"
    THEN IF resize_alignment = "None" THEN [calls |-> <<>>, warned |-> FALSE]
         ELSE IF resize_alignment = "Align to Output"
         THEN [calls |-> <<"align_to_output">>, warned |-> FALSE]
         ELSE [calls |-> <<"align_to_input">>, warned |-> FALSE]
    ELSE IF method # ""
    THEN IF concat_alignment = "Align to Large"
         THEN [calls |-> <<"align_to_large">>, warned |-> FALSE]
         ELSE IF concat_alignment = "Align to Large"
         THEN [calls |-> <<"align_to_output">>, warned |-> FALSE]
         ELSE [calls |-> <<>>, warned |-> TRUE]
    ELSE [calls |-> <<>>, warned |-> FALSE]

\* QuantAlignmentPass(...).optimize(graph)
Optimize(type, method, elementwise_alignment, concat_alignment, pooling_alignment, resize_alignment) ==
    /\ ~aligned.called
    /\ LET r == optimize(type, method, elementwise_alignment, concat_alignment,
                         pooling_alignment, resize_alignment)
       IN aligned' = [called |-> TRUE, type |-> type, method |-> method,
                      concat_alignment |-> concat_alignment,
                      calls |-> r.calls, warned |-> r.warned]
    /\ UNCHANGED <<g, pre, orig, cmd, phase, blk, registry, queue, popped, ft, obs, hook>>

NextAlign ==
    \E type \in AlignmentTypes, method \in OverrideMethods,
       elementwise_alignment \in {"Align to Large", "Align to Output", "None"},
       concat_alignment \in {"Align to Large", "Align to Output", "None"},
       pooling_alignment \in {"Align to Input", "Align to Output", "None"},
       resize_alignment \in {"Align to Input", "Align to Output", "None"} :
       Optimize(type, method, elementwise_alignment, concat_alignment,
                pooling_alignment, resize_alignment)

SpecAlign == Init /\ [][NextAlign]_vars

\* ------------------------------------------------------------ properties
\* the operations a graph holds that are reachable downstream of the set S
RECURSIVE DownClosure(_, _)
DownClosure(gr, S) ==
    LET T == S \cup UNION {Range(get_downstream_operations(gr, op)) : op \in S}
    IN IF T = S THEN S ELSE DownClosure(gr, T)

ProducesOutput(gr, op) ==
    \E i \in 1..Len(gr.opOut[op]) : gr.outputs[gr.vName[gr.opOut[op][i]]] = gr.opOut[op][i]

\* op has a directed path to a variable in graph.outputs
ReachesOutput(gr, op) == \E d \in DownClosure(gr, {op}) : ProducesOutput(gr, d)

Registered(gr, op) == gr.operations[gr.opName[op]] = op

\* a variable without producer and consumer, or referencing an operation that
\* is not in the graph
Dangling(gr, v) ==
    \/ gr.vSrc[v] = None /\ gr.vDst[v] = <<>>
    \/ gr.vSrc[v] # None /\ ~Registered(gr, gr.vSrc[v])
    \/ \E i \in 1..Len(gr.vDst[v]) : ~Registered(gr, gr.vDst[v][i])

AfterDeleteIsolated ==
    /\ phase \in {"done", "again"}
    /\ cmd.name = "DELETE_ISOLATED"
    /\ g.err = ""

\* C2: after delete_isolated returns, every operation left in graph.operations
\* produces a declared graph output or has a downstream operation that is
\* still in the graph.
C2_FixedPoint ==
    AfterDeleteIsolated =>
        \A op \in RegOps(g) :
            \/ ProducesOutput(g, op)
            \/ \E d \in Range(get_downstream_operations(g, op)) : Registered(g, d)

\* a dead chain of two operations was removed one after the other and a live
\* operation was kept
C2_Witness ==
    /\ AfterDeleteIsolated /\ phase = "done"
    /\ RegOps(g) # {}
    /\ \E a, b \in RegOps(pre) \ RegOps(g) :
          a # b /\ b \in Range(get_downstream_operations(pre, a))

\* C3: a second delete_isolated directly after a first one removes no
\* operation and no variable.
C3_Idempotent ==
    phase = "again" => /\ g.err = ""
                       /\ RegOps(g) = RegOps(pre)
                       /\ RegVars(g) = RegVars(pre)
                       /\ g = pre

\* the first call removed operations and variables, the second ran on the rest
C3_Witness ==
    /\ phase = "again"
    /\ RegOps(pre) # RegOps(orig)
    /\ RegVars(pre) # RegVars(orig)
    /\ RegOps(g) # {}

\* C4: delete_isolated keeps exactly the operations that had a path to a graph
\* output, and leaves no dangling variable.
C4_GarbageCollected ==
    (AfterDeleteIsolated /\ phase = "done") =>
        /\ RegOps(g) = {op \in RegOps(pre) : ReachesOutput(pre, op)}
        /\ \A v \in RegVars(g) : ~Dangling(g, v)

\* a dead operation with two outputs was collected with both of its outputs
\* while the live part was kept
C4_Witness ==
    /\ AfterDeleteIsolated /\ phase = "done"
    /\ RegOps(g) # {}
    /\ \E op \in RegOps(pre) \ RegOps(g) :
          Len(pre.opOut[op]) = 2 /\ Range(pre.opOut[op]) \cap RegVars(g) = {}

\* the operations a graph holds from which the set S is reachable
RECURSIVE UpClosure(_, _)
UpClosure(gr, S) ==
    LET T == S \cup UNION {Range(get_upstream_operations(gr, op)) : op \in S}
    IN IF T = S THEN S ELSE UpClosure(gr, T)

\* op lies on a path from a graph input to the variable var
OnPathFromInput(gr, op, var) ==
    /\ gr.vSrc[var] # None
    /\ op \in UpClosure(gr, {gr.vSrc[var]})
    /\ \E a \in UpClosure(gr, {op}) : Range(gr.opIn[a]) \cap InVars(gr) # {}

AfterTruncate ==
    /\ phase = "done"
    /\ cmd.name = "TRUNCATE_ON_VAR"
    /\ cmd.flag

TruncatedAt(var) ==
    /\ g.err = ""
    /\ g.outputs[g.vName[var]] = var
    /\ DownClosure(pre, Range(pre.vDst[var])) \cap RegOps(g) = {}
    /\ \A op \in RegOps(pre) : OnPathFromInput(pre, op, var) => op \in RegOps(g)
    /\ \A v \in RegVars(g) : ~Dangling(g, v)

\* C5 as claimed: for ANY registered variable, truncate_on_var(var, True)
\* completes, leaves var a declared output, removes everything downstream of
\* it, keeps every operation between the graph inputs and var, and leaves no
\* dangling variable.
C5_AnyVariable == AfterTruncate => TruncatedAt(cmd.a)

\* C5 amended: the same for every variable that has a producer in the graph.
C5_ProducedVariable ==
    (AfterTruncate /\ pre.vSrc[cmd.a] # None) => TruncatedAt(cmd.a)

\* a mid-chain variable with a producer fed by a graph input and two
\* operations downstream of it was truncated
C5_Witness ==
    /\ AfterTruncate
    /\ pre.vSrc[cmd.a] # None
    /\ \E op \in RegOps(pre) : OnPathFromInput(pre, op, cmd.a)
    /\ Cardinality(DownClosure(pre, Range(pre.vDst[cmd.a]))) >= 2

\* the list s with every x replaced by y
Subst(s, x, y) == [i \in 1..Len(s) |-> IF s[i] = x THEN y ELSE s[i]]

AfterReplaceOp ==
    /\ phase = "done"
    /\ cmd.name = "REPLACE_OP"
    /\ pre.operations[cmd.a] # None

\* what replace_op(name_of_X, Y) leaves wired to Y
Rewired(X, Y) ==
    /\ g.err = ""
    /\ g.opIn[Y] = pre.opIn[X]
    /\ g.opOut[Y] = pre.opOut[X]
    /\ parameters(g, Y) = parameters(pre, X)
    /\ \A v \in Range(pre.opIn[X]) : g.vDst[v] = Subst(pre.vDst[v], X, Y)
    /\ \A v \in Range(pre.opOut[X]) : g.vSrc[v] = Y
    /\ \A n \in OpIds : g.operations[n] # X

\* C6 as claimed: Y is wired to X's former inputs, outputs and parameters, the
\* back-references point to Y, and X is absent from graph.operations both as a
\* value and as a key (the name of X keys nothing any more).
C6_AbsentAsKeyAndValue ==
    AfterReplaceOp =>
        /\ Rewired(pre.operations[cmd.a], cmd.b)
        /\ g.operations[pre.opName[pre.operations[cmd.a]]] = None

\* C6 amended: the same wiring, X is absent as a value, and the key that named
\* X is kept and maps to Y.
C6_Rewired ==
    AfterReplaceOp =>
        /\ Rewired(pre.operations[cmd.a], cmd.b)
        /\ g.operations[cmd.a] = cmd.b

\* an operation with an input, an output and a consumer was replaced by an
\* operation that came with an input list of its own
C6_Witness ==
    /\ AfterReplaceOp
    /\ cmd.flag
    /\ pre.opIn[pre.operations[cmd.a]] # <<>>
    /\ get_downstream_operations(pre, pre.operations[cmd.a]) # <<>>

AfterReplaceVar ==
    /\ phase = "done"
    /\ cmd.name = "REPLACE_VAR"
    /\ pre.variables[cmd.a] # None

\* C7: after replace_var(name_of_V, R), R has V's producer and consumers, every
\* consumer and the producer hold R wherever they held V, the name maps to R in
\* graph.variables, graph.inputs and graph.outputs, and no operation of the
\* graph references V.
C7_VarReplaced ==
    AfterReplaceVar =>
        LET V == pre.variables[cmd.a]
            R == cmd.b
        IN /\ g.err = ""
           /\ g.vSrc[R] = pre.vSrc[V]
           /\ g.vDst[R] = pre.vDst[V]
           /\ \A op \in RegOps(pre) : /\ g.opIn[op] = Subst(pre.opIn[op], V, R)
                                      /\ g.opOut[op] = Subst(pre.opOut[op], V, R)
           /\ g.variables[cmd.a] = R
           /\ pre.inputs[cmd.a] # None => g.inputs[cmd.a] = R
           /\ pre.outputs[cmd.a] # None => g.outputs[cmd.a] = R
           /\ \A op \in RegOps(g) : V \notin Range(g.opIn[op]) \cup Range(g.opOut[op])

\* a produced variable that one operation consumes at two input positions was
\* replaced
C7_Witness ==
    /\ AfterReplaceVar
    /\ pre.vSrc[pre.variables[cmd.a]] # None
    /\ \E op \in RegOps(pre) :
          Cardinality({i \in 1..Len(pre.opIn[op]) : pre.opIn[op][i] = pre.variables[cmd.a]}) = 2

UnknownName ==
    /\ phase = "done"
    /\ \/ cmd.name = "REPLACE_OP" /\ pre.operations[cmd.a] = None
       \/ cmd.name = "REPLACE_VAR" /\ pre.variables[cmd.a] = None

\* C8: replace_op and replace_var with a name that is not registered raise
\* KeyError and leave the graph and the replacement object as they were.
C8_UnknownNameRejected ==
    UnknownName => g.err = "KeyError" /\ [g EXCEPT !.err = ""] = pre

\* replace_op was called with an unregistered name and a replacement that came
\* with an input list of its own
C8_Witness ==
    /\ UnknownName
    /\ cmd.name = "REPLACE_OP"
    /\ pre.opIn[cmd.b] # <<>>

\* the bidirectional consistency invariant over what the graph registers
Consistent(gr) ==
    /\ \A v \in RegVars(gr) :
          gr.vSrc[v] # None => v \in Range(gr.opOut[gr.vSrc[v]])
    /\ \A op \in RegOps(gr) :
          \A v \in Range(gr.opIn[op]) : op \in Range(gr.vDst[v])

AfterBuild ==
    /\ phase = "done"
    /\ cmd.name = "BUILD"
    /\ blk.err = ""

RECURSIVE DownAvoiding(_, _, _)
\* the operations reached downstream of the set S on paths that do not contain x
DownAvoiding(gr, S, x) ==
    LET T == S \cup (UNION {Range(get_downstream_operations(gr, op)) : op \in S} \ {x})
    IN IF T = S THEN S ELSE DownAvoiding(gr, T, x)

RECURSIVE UpAvoiding(_, _, _)
\* the operations from which the set S is reached on paths that do not contain x
UpAvoiding(gr, S, x) ==
    LET T == S \cup (UNION {Range(get_upstream_operations(gr, op)) : op \in S} \ {x})
    IN IF T = S THEN S ELSE UpAvoiding(gr, T, x)

\* a path leads from S to a graph output and does not contain E
EscapesAround(gr, S, E) == \E op \in DownAvoiding(gr, {S}, E) : ProducesOutput(gr, op)

\* a path leads from a graph input to E and does not contain S
EntersBeside(gr, S, E) ==
    \E op \in UpAvoiding(gr, {E}, S) : Range(gr.opIn[op]) \cap InVars(gr) # {}

\* C9: a block (S, E, M) that build returns with S # E has one entry and one
\* exit: E lies on every path from S to a graph output, and S lies on every
\* path from a graph input to E.
C9_SingleEntryExit ==
    (AfterBuild /\ blk.sp # blk.ep) =>
        /\ ~EscapesAround(g, blk.sp, blk.ep)
        /\ ~EntersBeside(g, blk.sp, blk.ep)

\* the operations on the paths from A to D
Between(gr, A, D) == DownClosure(gr, {A}) \cap UpClosure(gr, {D})

\* A has two or more consumers, the branches that leave A are chains of
\* operations with one input and one consumer, and they all end in D, which
\* reads nothing else
DiamondAt(gr, A, D) ==
    LET inner == Between(gr, A, D) \ {A, D}
    IN /\ A # D
       /\ Len(get_downstream_operations(gr, A)) >= 2
       /\ Range(get_downstream_operations(gr, A)) \subseteq inner
       /\ \A b \in inner : /\ Len(gr.opIn[b]) = 1
                           /\ Len(get_downstream_operations(gr, b)) = 1
       /\ Len(get_upstream_operations(gr, D)) = Len(gr.opIn[D])
       /\ Range(get_upstream_operations(gr, D)) \subseteq inner

DiamondBuilt(D) ==
    /\ AfterBuild
    /\ DiamondAt(g, cmd.a, D)
    /\ blk.depth[D] - blk.depth[cmd.a] <= cmd.b

\* C10 as claimed: on a diamond from A to D with depth[D] - depth[A] <= limit,
\* build(A, limit) returns S = A, E = D and M = the operations on the paths
\* from A to D.
C10_DiamondEndsAtD ==
    \A D \in RegOps(g) :
        DiamondBuilt(D) =>
            /\ blk.sp = cmd.a
            /\ blk.ep = D
            /\ Range(blk.rps) = Between(g, cmd.a, D)

\* C10 amended: build(A, limit) returns S = A and an E that is D or lies
\* downstream of D, with M = the operations on the paths from A to E; E = D
\* when D has no consumer or when depth[D] - depth[A] = limit.
C10_DiamondReachesD ==
    \A D \in RegOps(g) :
        DiamondBuilt(D) =>
            /\ blk.sp = cmd.a
            /\ blk.ep \in DownClosure(g, {D})
            /\ Range(blk.rps) = Between(g, cmd.a, blk.ep)
            /\ Len(blk.rps) = Cardinality(Range(blk.rps))
            /\ (\/ get_downstream_operations(g, D) = <<>>
                \/ blk.depth[D] - blk.depth[cmd.a] = cmd.b) => blk.ep = D

\* the diamond A->B, A->C, B->D, C->D was handed to build with a seed A and a
\* limit that reaches D, and the block ends at D
C10_Witness ==
    \E D \in RegOps(g) :
        /\ DiamondBuilt(D)
        /\ Cardinality(Between(g, cmd.a, D)) = 4
        /\ Len(get_upstream_operations(g, D)) = 2
        /\ blk.ep = D
        /\ Len(blk.rps) = 4

\* C11: the block build(s, d) returns starts at s and satisfies
\* depth[E] - depth[S] <= d; with d = 0 it is the minimal block (s, s, [s]).
C11_DepthLimit ==
    AfterBuild =>
        /\ blk.sp = cmd.a
        /\ blk.depth[blk.ep] - blk.depth[blk.sp] <= cmd.b
        /\ cmd.b = 0 => (blk.ep = cmd.a /\ blk.rps = <<cmd.a>>)

\* a chain was cut by the limit: the block was extended up to the limit and
\* its endpoint has a follower that would have extended it further
C11_Witness ==
    /\ AfterBuild
    /\ cmd.b >= 1
    /\ blk.depth[blk.ep] - blk.depth[blk.sp] = cmd.b
    /\ find_coherent_ep(g, blk.ep) # None

AfterNewBlockBuilder ==
    /\ phase = "done"
    /\ cmd.name = "BLOCK_BUILDER"

\* every operation comes once, after all of its upstream operations
IsTopological(gr, order) ==
    /\ Range(order) = RegOps(gr)
    /\ Len(order) = Cardinality(RegOps(gr))
    /\ \A i \in 1..Len(order) :
          \A u \in Range(get_upstream_operations(gr, order[i])) :
              \E j \in 1..(i - 1) : order[j] = u

\* C12: after BlockBuilder is constructed with a valid topological order, the
\* assertion of initialize_depth has not failed, depth[op] = 0 for every
\* operation without upstream operations and 1 + the largest depth of its
\* upstream operations otherwise, and depth strictly increases along every
\* edge.
C12_DepthByLongestPath ==
    (AfterNewBlockBuilder /\ IsTopological(g, blk.op_orders)) =>
        /\ blk.err = ""
        /\ DOMAIN blk.depth = RegOps(g)
        /\ \A op \in RegOps(g) :
              LET ups == Range(get_upstream_operations(g, op))
              IN /\ ups = {} => blk.depth[op] = 0
                 /\ ups # {} => /\ \A u \in ups : blk.depth[u] < blk.depth[op]
                                /\ \E u \in ups : blk.depth[op] = blk.depth[u] + 1

\* the builder was constructed with a topological order other than the order
\* of creation, on a graph with an operation whose two upstream operations
\* have different depths
C12_Witness ==
    /\ AfterNewBlockBuilder
    /\ IsTopological(g, blk.op_orders)
    /\ blk.op_orders # SetToSeq(RegOps(g))
    /\ \E op \in RegOps(g) : \E u, w \in Range(get_upstream_operations(g, op)) :
          blk.depth[u] + 1 < blk.depth[w] + 1 /\ blk.depth[op] = blk.depth[w] + 1

AfterFormatParameter ==
    /\ phase = "done"
    /\ cmd.name = "FORMAT_PARAMETERS"

\* a parameter consumed at more than one input position
Shared(gr, v) == v \in RegVars(gr) /\ gr.vParam[v] /\ Len(gr.vDst[v]) > 1

\* C16: after format_parameter every parameter variable has at most one
\* destination operation; every input position that held a shared parameter
\* holds a fresh parameter variable of its own whose only consumer is that
\* operation, every other input position is unchanged, and the shared
\* variable is no longer in the graph.
C16_ParametersSplit ==
    AfterFormatParameter =>
        /\ g.err = ""
        /\ \A v \in RegVars(g) : g.vParam[v] => Len(g.vDst[v]) <= 1
        /\ \A v \in RegVars(pre) : Shared(pre, v) => v \notin RegVars(g)
        /\ RegOps(g) = RegOps(pre)
        /\ \A op \in RegOps(pre) :
              /\ Len(g.opIn[op]) = Len(pre.opIn[op])
              /\ \A i \in 1..Len(pre.opIn[op]) :
                    LET old == pre.opIn[op][i]
                        new == g.opIn[op][i]
                    IN IF Shared(pre, old)
                       THEN /\ new \in RegVars(g) \ RegVars(pre)
                            /\ g.vParam[new]
                            /\ g.vSrc[new] = None
                            /\ g.vDst[new] = <<op>>
                            /\ \A j \in 1..Len(pre.opIn[op]) : g.opIn[op][j] = new => j = i
                       ELSE new = old

\* a parameter held twice by one operation and once by another was split
C16_Witness ==
    /\ AfterFormatParameter
    /\ g.err = ""
    /\ \E v \in RegVars(pre), a, b \in RegOps(pre) :
          /\ Shared(pre, v)
          /\ a # b
          /\ pre.opIn[a] = <<v, v>>
          /\ v \in Range(pre.opIn[b])

AfterFuseBn ==
    /\ phase = "done"
    /\ cmd.name = "FUSE_BN"

\* a computing operation linked to a BatchNormalization: what path_matching
\* hands to fuse_bn
BnPair(gr, c, b) ==
    /\ c \in RegOps(gr) /\ b \in RegOps(gr)
    /\ gr.opType[c] \in ComputingTypes
    /\ gr.opType[b] = "BatchNormalization"
    /\ b \in Range(get_downstream_operations(gr, c))

NearMiss(gr, c, b) ==
    /\ BnPair(gr, c, b)
    /\ \/ Len(get_downstream_operations(gr, c)) # 1
       \/ Len(get_upstream_operations(gr, b)) # 1

\* the operation, its lists, its parameters and its links are as they were
Untouched(op) ==
    /\ op \in RegOps(g)
    /\ g.opType[op] = pre.opType[op]
    /\ g.opIn[op] = pre.opIn[op]
    /\ g.opOut[op] = pre.opOut[op]
    /\ \A v \in Range(pre.opIn[op]) :
          /\ v \in RegVars(g)
          /\ g.vParam[v] = pre.vParam[v]
          /\ Cardinality({i \in 1..Len(g.vDst[v]) : g.vDst[v][i] = op})
               = Cardinality({i \in 1..Len(pre.vDst[v]) : pre.vDst[v][i] = op})
          /\ pre.vParam[v] => g.vDst[v] = pre.vDst[v]
    /\ \A v \in Range(pre.opOut[op]) : v \in RegVars(g) /\ g.vSrc[v] = op

\* the pair was replaced by one operation of the computing operation's name
\* and type that reads the computing operation's input and writes the
\* BatchNormalization's output
Fused(c, b) ==
    /\ c \notin RegOps(g) /\ b \notin RegOps(g)
    /\ LET m == g.operations[pre.opName[c]]
       IN /\ m # None
          /\ g.opType[m] = pre.opType[c]
          /\ Len(g.opIn[m]) = 3
          /\ g.opIn[m][1] = pre.opIn[c][1]
          /\ g.opOut[m] = pre.opOut[b]

\* C18: a matched pair whose computing operation has a number of downstream
\* operations other than one, or whose BatchNormalization has a number of
\* upstream operations other than one, is left as it was (both operations,
\* their parameters, their links), and when fuse_bn returns normally every
\* other matched pair has been fused.
C18_NearMissSkipped ==
    AfterFuseBn =>
        \A c, b \in RegOps(pre) :
            /\ NearMiss(pre, c, b) => Untouched(c) /\ Untouched(b)
            /\ (g.err = "" /\ BnPair(pre, c, b) /\ ~NearMiss(pre, c, b)) => Fused(c, b)

\* a pair that was skipped because the BatchNormalization has two upstream
\* operations came before a valid pair, which was fused
C18_Witness ==
    /\ AfterFuseBn
    /\ g.err = ""
    /\ \E c, b, c2, b2 \in RegOps(pre) :
          /\ NearMiss(pre, c, b)
          /\ Len(get_downstream_operations(pre, c)) = 1
          /\ Len(get_upstream_operations(pre, b)) = 2
          /\ c < c2
          /\ BnPair(pre, c2, b2) /\ ~NearMiss(pre, c2, b2)
          /\ Fused(c2, b2)

AfterCanonicalizeAgain ==
    /\ phase = "again"
    /\ cmd.name \in Canonicalizations

\* C17: format_slice, format_pad, format_clip, format_resize,
\* remove_constant_input, format_parameter and remove_identity are idempotent:
\* invoked a second time directly after a first invocation that returned
\* normally, each leaves every operation, variable, attribute and link of the
\* graph as the first invocation left it, and raises nothing.
C17_CanonicalizationIdempotent ==
    AfterCanonicalizeAgain => g = pre

\* the second invocation of a pass whose first invocation rewrote the graph
C17_Witness ==
    /\ AfterCanonicalizeAgain
    /\ cmd.name = "FORMAT_PAD"
    /\ pre # orig
    /\ \E op \in RegOps(orig) : "pads" \in orig.opAttr[op] /\ pre.opAttr[op] = {}

AfterFuseBiasAdd ==
    /\ phase = "done"
    /\ cmd.name = "FUSE_BIAS_ADD"

\* the computing operation took one more input
BiasFused(c) ==
    /\ c \in RegOps(pre) /\ c \in RegOps(g)
    /\ pre.opType[c] \in ComputingTypes
    /\ Len(g.opIn[c]) = Len(pre.opIn[c]) + 1

\* C19: fuse_bias_add fuses a computing operation only if it has exactly one
\* downstream operation, that operation is an Add with exactly one parameter,
\* and the computing operation does not have three inputs; an Add without a
\* parameter stays. After a fusion the Add is gone, the last input of the
\* computing operation is a new parameter of its own, and every consumer of the
\* Add's output (and the graph output) holds the output of the computing
\* operation in its place.
C19_BiasAddFused ==
    AfterFuseBiasAdd =>
        /\ g.err = ""
        /\ \A c \in RegOps(pre) : BiasFused(c) =>
              LET downs == get_downstream_operations(pre, c)
                  add == downs[1]
                  bias == g.opIn[c][Len(g.opIn[c])]
                  add_out == pre.opOut[add][1]
                  out == pre.opOut[c][1]
              IN /\ Len(downs) = 1
                 /\ pre.opType[add] = "Add"
                 /\ Len(parameters(pre, add)) = 1
                 /\ Len(pre.opIn[c]) # 3
                 /\ add \notin RegOps(g)
                 /\ bias \in RegVars(g) \ RegVars(pre)
                 /\ g.vParam[bias]
                 /\ g.vDst[bias] = <<c>>
                 /\ g.opOut[c] = <<out>>
                 /\ g.vSrc[out] = c
                 /\ \A d \in RegOps(pre) : \A i \in 1..Len(pre.opIn[d]) :
                       pre.opIn[d][i] = add_out =>
                           /\ d \in RegOps(g)
                           /\ g.opIn[d][i] = out
                           /\ d \in Range(g.vDst[out])
                 /\ add_out \in OutVars(pre) => out \in OutVars(g)
        /\ \A a \in RegOps(pre) :
              (pre.opType[a] = "Add" /\ parameters(pre, a) = <<>>) =>
                  /\ a \in RegOps(g)
                  /\ Len(g.opIn[a]) = Len(pre.opIn[a])
                  /\ g.opOut[a] = pre.opOut[a]
                  /\ \A v \in Range(g.opIn[a]) : ~g.vParam[v]

\* a Conv was fused with an Add whose output another operation consumed
C19_Witness ==
    /\ AfterFuseBiasAdd
    /\ \E c, d \in RegOps(pre) :
          /\ BiasFused(c)
          /\ pre.opOut[get_downstream_operations(pre, c)[1]][1] \in Range(pre.opIn[d])

AfterFormatGraph ==
    /\ phase = "done"
    /\ cmd.name = "FORMAT_GRAPH"

\* the operations that consume the variable
Consumers(gr, v) == Range(gr.vDst[v])

\* C15: when format_graph returns with every FORMATTER_* switch enabled, no
\* parameter of the graph is consumed by more than one operation.
C15_NoSharedParameter ==
    (AfterFormatGraph /\ cmd.b = Switches /\ g.err = "") =>
        \A v \in RegVars(g) : g.vParam[v] => Cardinality(Consumers(g, v)) <= 1

AfterCall ==
    /\ phase = "done"
    /\ cmd.b = "__call__"

AfterProcess ==
    /\ phase = "done"
    /\ cmd.b = "process"

\* the processors of the chain that declare the command type acceptable
Accepting(chain, command_type) ==
    {i \in 1..Len(chain) : command_type \in acceptable_command_types(chain[i])}

\* C13: the sets of command types the three processors declare acceptable are
\* pairwise disjoint, the process method of each processor tests for every
\* type of its own set, every command format_graph issues is acceptable to
\* exactly one processor of its chain, and such a command issued to the chain
\* is processed by that processor and no other.
C13_RoutedToOneProcessor ==
    /\ \A p, q \in Processors :
          p # q => acceptable_command_types(p) \cap acceptable_command_types(q) = {}
    /\ \A p \in Processors : acceptable_command_types(p) \subseteq process_branches(p)
    /\ \A c \in Range(FormatGraphCommands(Switches)) :
          Cardinality(Accepting(FormatterChain, c)) = 1
    /\ (AfterCall /\ cmd.a = FormatterChain /\ cmd.name \in Range(FormatGraphCommands(Switches))) =>
          \E i \in 1..Len(FormatterChain) :
              /\ Accepting(FormatterChain, cmd.name) = {i}
              /\ cmd.name \in process_branches(FormatterChain[i])
              /\ g = process(FormatterChain[i], pre, cmd.name, ParamVars(pre))
              /\ g.err # "ValueError"

\* FUSE_BN went through the replacer and the formatter and the merger fused a
\* pair
C13_Witness ==
    /\ AfterCall
    /\ cmd.a = FormatterChain
    /\ cmd.name = "FUSE_BN"
    /\ g.err = ""
    /\ g # pre

\* C14: a processor without successor that is handed a command of a type it
\* does not declare acceptable, through process or through a call, signals an
\* error and leaves the graph as it was.
C14_UnacceptableRejected ==
    (phase = "done" /\ Len(cmd.a) = 1 /\ cmd.name \notin acceptable_command_types(cmd.a[1])) =>
        /\ g.err # ""
        /\ g = Raise(pre, g.err)

\* the platform is a key of the tables
Registered_platform(reg, platform) ==
    reg.dispatcher[platform] # "" /\ reg.parser[platform] # ""

AfterDispatchGraph ==
    /\ phase = "done"
    /\ cmd.name = "DISPATCH_GRAPH"

\* C21: dispatch_graph called without a dispatcher returns the graph
\* dispatched as with the dispatcher "conservative", every operation with a
\* precision.
C21_DefaultDispatcher ==
    (AfterDispatchGraph /\ cmd.a.kind = "None") =>
        /\ g = dispatch_graph(pre, [kind |-> "str", name |-> "conservative"], cmd.b[1], cmd.b[2])
        /\ g.err = "" => \A op \in RegOps(g) : g.opPrecision[op] # ""

AfterFuseLayernorm ==
    /\ phase = "done"
    /\ cmd.name = "FUSE_LAYERNORM"

\* the matches the first loop of fuse_layernorm walks, and the graph as the
\* loop finds it when it takes up the i-th of them
Matches1 == pattern_matching(pre, Pattern1(pre), Edges1, cmd.a)
GraphAt1(i) == FuseMatches1(pre, SubSeq(Matches1, 1, i - 1))

\* the i-th match is rewritten: _fuse creates a LayerNormalization for it
Rewritten1(i) ==
    LET gi == GraphAt1(i)
        a == Operands1(gi, Matches1[i])
        m == Matches1[i]
    IN /\ gi.err = ""
       /\ a.err = ""
       /\ Fuse(gi, m[2], m[5], m[6], a.bias, a.layernorm_input_var, a.layernorm_output_var).layernorm # None

\* C22: no operation is fused twice within one pass: every match that
\* fuse_layernorm rewrites consists only of operations that are still in the
\* graph, whatever kind of matching the caller asked for.
C22_NoStaleMatchRewritten ==
    AfterFuseLayernorm =>
        \A i \in 1..Len(Matches1) :
            Rewritten1(i) => Range(Matches1[i]) \subseteq RegOps(GraphAt1(i))

\* two LayerNormalization operations are created from overlapping matches
C22_Overlap ==
    /\ AfterFuseLayernorm
    /\ Len(Matches1) >= 2
    /\ \E i \in 1..Len(Matches1) : i >= 2 /\ Rewritten1(i)

\* the operations that read an output of e
ReadersOf(gr, e) ==
    {o \in RegOps(gr) : \E v \in Range(gr.opOut[e]) : v \in Range(gr.opIn[o])}

\* f reads exactly one variable that is no parameter, and exactly one of its
\* inputs has a producer
SingleInput(gr, f) ==
    /\ Cardinality({i \in 1..Len(gr.opIn[f]) : ~gr.vParam[gr.opIn[f][i]]}) = 1
    /\ Cardinality({i \in 1..Len(gr.opIn[f]) : gr.vSrc[gr.opIn[f][i]] # None}) = 1

C24_PriorityQueue ==
    [][/\ (cmd'.name = "pop" /\ ~cmd'.flag) =>
             /\ Len(popped') = Len(popped) + 1
             /\ LastOf(popped') \notin Range(popped)
             /\ LastOf(popped') \in Range(queue.data)
             /\ \A x \in Range(queue.data) \ Range(popped) : LastOf(popped')[1] <= x[1]
       /\ (cmd'.name = "push" /\ cmd'.b \in queue.ops) => queue' = queue
       /\ empty(queue') <=> Range(queue'.data) \subseteq Range(popped')
       /\ (cmd'.name = "pop" /\ empty(queue)) =>
             /\ cmd'.flag
             /\ Range(queue'.data) = Range(queue.data)
             /\ popped' = popped]_vars

RECURSIVE Visits(_, _, _)
\* the operations the while loop of _find_multi_input_ep takes from the queue,
\* in the order it takes them
Visits(gr, depth, q) ==
    IF empty(q) THEN <<>>
    ELSE LET p == pop(q)
             iter_operation == p.ele[2]
             upstream_ops == get_upstream_operations(gr, iter_operation)
         IN IF /\ empty(p.q)
               /\ \A i \in 1..Len(upstream_ops) : upstream_ops[i] \in p.q.ops
               /\ Len(upstream_ops) > 1
            THEN <<iter_operation>>
            ELSE <<iter_operation>> \o
                 Visits(gr, depth, PushAll(p.q, depth, get_downstream_operations(gr, iter_operation)))

VisitsFrom(gr, depth, op) ==
    Visits(gr, depth, PushAll(pop(push(EmptyQueue, depth[op], op)).q, depth,
                              get_downstream_operations(gr, op)))

NoRepeat(s) == \A i, j \in 1..Len(s) : i # j => s[i] # s[j]

\* C25: build terminates for every seed and limit: every pass of the loop
\* that does not return moves the endpoint to an operation of strictly greater
\* depth, the search for a blocking operation takes no operation from the
\* queue twice, the loop returns as soon as there is no candidate or the
\* candidate is deeper than the limit allows, and a call that entered the loop
\* returns.
C25_BuildTerminates ==
    /\ [][(phase = "loop" /\ phase' = "loop") => blk.depth[blk'.ep] > blk.depth[blk.ep]]_vars
    /\ [](phase = "loop" => NoRepeat(VisitsFrom(g, blk.depth, blk.ep)))
    /\ [][(phase = "loop" /\ phase' = "done") =>
              LET f == future_ep(g, blk.depth, blk.ep)
              IN /\ f = None \/ blk.depth[f] - blk.depth[blk.sp] > cmd.b
                 /\ blk'.ep = blk.ep]_vars
    /\ (phase = "loop") ~> (phase = "done")

\* the loop has moved the endpoint twice, once past a fork
C25_Witness ==
    /\ phase = "done"
    /\ cmd.name = "BUILD"
    /\ blk.err = ""
    /\ blk.depth[blk.ep] - blk.depth[blk.sp] >= 2
    /\ \E e \in Range(blk.rps) : Len(get_downstream_operations(g, e)) > 1

\* C26: when finetune has run to its end and the loss after training exceeds
\* the loss before, the parameter value and every scale and offset of the
\* block are what they were when the loss before training was measured
\* (scale changes of tune_block_weight_scale included); otherwise the trained
\* values are finalized; either way every delegator is withdrawn or finalized
\* exactly once.
C26_NeverWorse ==
    ft.pc = "done" =>
        /\ ft.post_loss > ft.pre_loss =>
               /\ ft.value = NoFinetune.value
               /\ ft.scale = NoFinetune.scale
               /\ ft.offset = NoFinetune.offset
        /\ \A cfg \in Cfgs :
               ft.delegators[cfg].kind # "" =>
                   /\ ft.delegators[cfg].withdrawn + ft.delegators[cfg].finalized = 1
                   /\ ft.delegators[cfg].withdrawn = 1 <=> ft.post_loss > ft.pre_loss

\* C27: at training step t of finetune the rounding regularization of every
\* AdaRound delegator is evaluated with iters = t, so that the term is zero
\* exactly at the warm-up steps t < warm_ratio * steps.
C27_RegularizationAtStep ==
    \A i \in 1..Len(ft.regs) :
        /\ ft.regs[i].iters = ft.regs[i].step
        /\ ft.regs[i].zero <=> 5 * ft.regs[i].step < ft.steps

\* state, scale and offset of the config the observer was built on
Config(o) == <<o.state, o.scale, o.offset>>

\* C28: over any sequence of observe and render_quantization_config calls of a
\* ConstantObserver or a DirectMSEObserver, a config that is not INITIAL is
\* never modified; the only change of state is INITIAL -> ACTIVATED, made by a
\* render that does not raise, and no later call changes the config;
\* DirectMSEObserver.render_quantization_config with nothing observed raises
\* PermissionError and leaves state, scale and offset as they were.
C28_InitialOnly ==
    [][obs.kind # "" =>
        /\ obs.state # "INITIAL" => Config(obs') = Config(obs)
        /\ obs'.state # obs.state =>
               /\ obs.state = "INITIAL"
               /\ obs'.state = "ACTIVATED"
               /\ obs'.last = "render"
               /\ obs'.err = ""
        /\ (obs.kind = "floating" /\ obs.state = "INITIAL" /\ obs.collector = 0
               /\ obs'.last = "render") =>
               /\ obs'.err = "PermissionError"
               /\ Config(obs') = Config(obs)]_vars

\* a config rendered by a DirectMSEObserver is observed again
C28_Witness ==
    /\ obs.kind = "floating"
    /\ obs.state = "ACTIVATED"
    /\ obs.scale # 0
    /\ obs.last = "observe"

\* C30: build_hook creates an observer only for a config in state INITIAL;
\* with monitor_parameter = False none for the config of a parameter input,
\* with monitor_inputs = False none for a non-parameter input, with
\* monitor_outputs = False none for an output, whatever the other switches.
C30_SwitchesIndependent ==
    hook.built =>
        /\ \A i \in 1..Len(hook.inputs) :
               <<"input", i>> \in hook.observer_table =>
                   /\ hook.inputs[i].state = "INITIAL"
                   /\ hook.inputs[i].is_parameter => hook.monitor_parameter
                   /\ ~hook.inputs[i].is_parameter => hook.monitor_inputs
        /\ \A i \in 1..Len(hook.outputs) :
               <<"output", i>> \in hook.observer_table =>
                   /\ hook.outputs[i].state = "INITIAL"
                   /\ hook.monitor_outputs

\* C29: an operation that is of no Elementwise, Concat, Pooling or Resize type
\* and carries the manual alignment override is aligned by the method the
\* attribute names ('Align to Large' by align_to_large, 'Align to Output' by
\* align_to_output), whatever concat_alignment is, and the warning is issued
\* only for a method that is neither.
C29_ManualOverride ==
    (aligned.called /\ aligned.type = "Other" /\ aligned.method # "") =>
        /\ aligned.method = "Align to Large" => aligned.calls = <<"align_to_large">>
        /\ aligned.method = "Align to Output" => aligned.calls = <<"align_to_output">>
        /\ aligned.warned => aligned.method \notin {"Align to Large", "Align to Output"}
====
